---- MODULE Spec2Model ----
(***************************************************************************)
(* A model of the SenseAudio composition engine (js/MusicBrain.js), of the *)
(* song State it reads (State.js) and of the handlers of main.js that      *)
(* drive it.                                                               *)
(*                                                                         *)
(* Pure functions of MusicBrain are operators, computed as the JavaScript  *)
(* computes them.  A call of a pure function starts as an initial state     *)
(* that holds the arguments in `call`, drawn from bounded sets, with `ret`  *)
(* pending; the function's action applies it and records the outcome in    *)
(* `ret`: Return(v), or Throw for an uncaught TypeError.                   *)
(***************************************************************************)
EXTENDS Integers, Sequences, FiniteSets, TLC

VARIABLES
    call,            \* the call of a function or handler: [op, arguments...]
    ret,             \* its outcome
    prev,            \* what the outcome is compared with: the outcome of the
                     \* same call made once before; in the runs of History,
                     \* the song as it was when each stacked snapshot was taken
    \* ---- State (State.js constructor) --------------------------------
    bpm, rootKey, scaleName, vocalRangeType, stepsPerBar, totalBars,
    barChords,       \* 1-based sequence; bar i of the code is barChords[i+1]
    barStructure,    \* 1-based sequence of section names
    tracks,          \* sequence of [type, preset]
    activeTrackIndex,
    clipboard,       \* the bar copyBar took: null, or [notes, chord, structure]
    \* ---- one run of generateMelody / generateMelodyMarkov -------------
    gen,             \* the generator's frame (see MelodyIdle)
    \* ---- History (History.js constructor) ----------------------------
    undoStack,       \* sequence of snapshots, the latest last
    redoStack,
    \* ---- the analytics service worker (README.md) --------------------
    offlineQueue,    \* chrome.storage.local 'offlineQueue'
    track,           \* the trackEvent call of each event: where it is
    flush,           \* the flushOfflineQueue calls: where each is
    accepted         \* the events the server has answered with an ok status

songVars == <<bpm, rootKey, scaleName, vocalRangeType, stepsPerBar, totalBars,
              barChords, barStructure, tracks, activeTrackIndex, clipboard>>
histVars == <<undoStack, redoStack>>
workerVars == <<offlineQueue, track, flush, accepted>>
vars == <<call, ret, prev, songVars, gen, histVars, workerVars>>

-----------------------------------------------------------------------------
(* JavaScript values and arithmetic                                        *)

Undefined == [undefined |-> TRUE]
Return(v) == [kind |-> "return", value |-> v]
Throw == [kind |-> "throw", error |-> "TypeError"]

Range(s) == {s[i] : i \in DOMAIN s}

\* a % b of JavaScript for b > 0: the remainder has the sign of a
JsMod(a, b) == IF a >= 0 THEN a % b ELSE -((-a) % b)

\* Math.round(100 * m / n) for m >= 0, n > 0: halves round up
RoundPercent(m, n) == (200 * m + n) \div (2 * n)

\* obj[key] || fallback for a table of own properties
OwnOr(tbl, key, fallback) == IF key \in DOMAIN tbl THEN tbl[key] ELSE fallback

-----------------------------------------------------------------------------
(* Theory tables (MusicBrain constructor)                                  *)

noteNames == <<"C", "C#", "D", "D#", "E", "F", "F#", "G", "G#", "A", "A#", "B">>

scales ==
    [ Major           |-> <<0, 2, 4, 5, 7, 9, 11>>,
      Minor           |-> <<0, 2, 3, 5, 7, 8, 10>>,
      HarmonicMinor   |-> <<0, 2, 3, 5, 7, 8, 11>>,
      Dorian          |-> <<0, 2, 3, 5, 7, 9, 10>>,
      Mixolydian      |-> <<0, 2, 4, 5, 7, 9, 10>>,
      Blues           |-> <<0, 3, 5, 6, 7, 10>>,
      PentatonicMajor |-> <<0, 2, 4, 7, 9>>,
      PentatonicMinor |-> <<0, 3, 5, 7, 10>> ]

\* one chord degree; the free-text `vibe` of the source is not represented
Deg(n, t, iv, f) == [name |-> n, type |-> t, intervals |-> iv, func |-> f]

chordDegrees ==
    [ Major |-> <<
        Deg("I",    "Major", <<0, 4, 7>>,  "TONIC"),
        Deg("ii",   "Minor", <<2, 5, 9>>,  "SUPERTONIC"),
        Deg("iii",  "Minor", <<4, 7, 11>>, "MEDIANT"),
        Deg("IV",   "Major", <<5, 9, 0>>,  "SUBDOMINANT"),
        Deg("V",    "Major", <<7, 11, 2>>, "DOMINANT"),
        Deg("vi",   "Minor", <<9, 0, 4>>,  "SUBMEDIANT"),
        Deg("viio", "Dim",   <<11, 2, 5>>, "LEADING") >>,
      Minor |-> <<
        Deg("i",    "Minor", <<0, 3, 7>>,  "TONIC"),
        Deg("iio",  "Dim",   <<2, 5, 8>>,  "SUPERTONIC"),
        Deg("III",  "Major", <<3, 7, 10>>, "MEDIANT"),
        Deg("iv",   "Minor", <<5, 8, 0>>,  "SUBDOMINANT"),
        Deg("v",    "Minor", <<7, 10, 2>>, "DOMINANT"),
        Deg("VI",   "Major", <<8, 0, 3>>,  "SUBMEDIANT"),
        Deg("VII",  "Major", <<10, 2, 5>>, "SUBTONIC") >>,
      HarmonicMinor |-> <<
        Deg("i",    "Minor", <<0, 3, 7>>,  "TONIC"),
        Deg("iio",  "Dim",   <<2, 5, 8>>,  "SUPERTONIC"),
        Deg("III+", "Aug",   <<3, 7, 11>>, "MEDIANT"),
        Deg("iv",   "Minor", <<5, 8, 0>>,  "SUBDOMINANT"),
        Deg("V",    "Major", <<7, 11, 2>>, "DOMINANT"),
        Deg("VI",   "Major", <<8, 0, 3>>,  "SUBMEDIANT"),
        Deg("viio", "Dim",   <<11, 2, 5>>, "LEADING") >>,
      Dorian |-> <<
        Deg("i",    "Minor", <<0, 3, 7>>,  "TONIC"),
        Deg("ii",   "Minor", <<2, 5, 9>>,  "SUPERTONIC"),
        Deg("III",  "Major", <<3, 7, 10>>, "MEDIANT"),
        Deg("IV",   "Major", <<5, 9, 0>>,  "SUBDOMINANT"),
        Deg("v",    "Minor", <<7, 10, 2>>, "DOMINANT"),
        Deg("vio",  "Dim",   <<9, 0, 3>>,  "SUBMEDIANT"),
        Deg("VII",  "Major", <<10, 2, 5>>, "SUBTONIC") >>,
      Mixolydian |-> <<
        Deg("I",    "Major", <<0, 4, 7>>,  "TONIC"),
        Deg("ii",   "Minor", <<2, 5, 9>>,  "SUPERTONIC"),
        Deg("iiio", "Dim",   <<4, 7, 10>>, "MEDIANT"),
        Deg("IV",   "Major", <<5, 9, 0>>,  "SUBDOMINANT"),
        Deg("v",    "Minor", <<7, 10, 2>>, "DOMINANT"),
        Deg("vi",   "Minor", <<9, 0, 4>>,  "SUBMEDIANT"),
        Deg("bVII", "Major", <<10, 2, 5>>, "SUBTONIC") >>,
      Blues |-> <<
        Deg("I7",   "Dom7",  <<0, 4, 7>>,  "TONIC"),
        Deg("IV7",  "Dom7",  <<5, 9, 0>>,  "SUBDOMINANT"),
        Deg("V7",   "Dom7",  <<7, 11, 2>>, "DOMINANT"),
        Deg("I",    "Major", <<0, 4, 7>>,  "TONIC"),
        Deg("bVII", "Major", <<10, 2, 5>>, "SUBTONIC") >>,
      PentatonicMajor |-> <<
        Deg("I",    "Major", <<0, 4, 7>>,  "TONIC"),
        Deg("ii",   "Minor", <<2, 5, 9>>,  "SUPERTONIC"),
        Deg("iii",  "Minor", <<4, 7, 11>>, "MEDIANT"),
        Deg("V",    "Major", <<7, 11, 2>>, "DOMINANT"),
        Deg("vi",   "Minor", <<9, 0, 4>>,  "SUBMEDIANT") >>,
      PentatonicMinor |-> <<
        Deg("i",    "Minor", <<0, 3, 7>>,  "TONIC"),
        Deg("III",  "Major", <<3, 7, 10>>, "MEDIANT"),
        Deg("iv",   "Minor", <<5, 8, 0>>,  "SUBDOMINANT"),
        Deg("v",    "Minor", <<7, 10, 2>>, "DOMINANT"),
        Deg("VII",  "Major", <<10, 2, 5>>, "SUBTONIC") >> ]

vocalRanges ==
    [ NONE     |-> [min |-> 0,  max |-> 127],
      SOPRANO  |-> [min |-> 60, max |-> 84],
      MEZZO    |-> [min |-> 57, max |-> 81],
      ALTO     |-> [min |-> 53, max |-> 77],
      TENOR    |-> [min |-> 48, max |-> 72],
      BARITONE |-> [min |-> 41, max |-> 64],
      BASS     |-> [min |-> 36, max |-> 60] ]

\* chordDegrees[scaleName][index] of JavaScript, for a scaleName that has a
\* table: undefined outside the array (index is 0-based)
DegreeAt(name, index) ==
    IF index + 1 \in DOMAIN chordDegrees[name]
    THEN chordDegrees[name][index + 1] ELSE Undefined

-----------------------------------------------------------------------------
(* Song templates and libraries (MusicBrain constructor, lines 219-791)    *)

P(t, n) == [type |-> t, len |-> n]

songTemplates ==
    [ POP_RADIO |-> [genre |-> "POP", bpm |-> 120, structure |-> <<
        P("INTRO", 4), P("VERSE", 8), P("PRE_CHORUS", 4), P("CHORUS", 8),
        P("VERSE", 8), P("PRE_CHORUS", 4), P("CHORUS", 8),
        P("BRIDGE", 8), P("CHORUS", 16), P("OUTRO", 4) >>],
      POP_SHORT |-> [genre |-> "POP", bpm |-> 124, structure |-> <<
        P("INTRO", 4), P("VERSE", 8), P("CHORUS", 8),
        P("VERSE", 8), P("CHORUS", 8), P("OUTRO", 4) >>],
      POP_EPIC |-> [genre |-> "POP", bpm |-> 75, structure |-> <<
        P("INTRO", 4), P("VERSE", 8), P("PRE_CHORUS", 4), P("CHORUS", 8),
        P("VERSE", 8), P("PRE_CHORUS", 4), P("CHORUS", 8),
        P("SOLO", 8), P("BRIDGE", 8), P("CHORUS", 16), P("OUTRO", 8) >>],
      TRAP |-> [genre |-> "HIPHOP", bpm |-> 140, structure |-> <<
        P("INTRO", 4), P("CHORUS", 8), P("VERSE", 16),
        P("CHORUS", 8), P("VERSE", 16), P("CHORUS", 8), P("OUTRO", 4) >>],
      BOOMBAP |-> [genre |-> "HIPHOP", bpm |-> 90, structure |-> <<
        P("INTRO", 4), P("VERSE", 16), P("CHORUS", 4),
        P("VERSE", 16), P("CHORUS", 4), P("VERSE", 16), P("OUTRO", 8) >>],
      EDM_RADIO |-> [genre |-> "EDM", bpm |-> 128, structure |-> <<
        P("INTRO", 8), P("VERSE", 8), P("PRE_CHORUS", 8), P("CHORUS", 8),
        P("VERSE", 8), P("PRE_CHORUS", 8), P("CHORUS", 16), P("OUTRO", 8) >>],
      EDM_CLUB |-> [genre |-> "EDM", bpm |-> 128, structure |-> <<
        P("INTRO", 16), P("VERSE", 16), P("PRE_CHORUS", 8), P("CHORUS", 16),
        P("BRIDGE", 8), P("PRE_CHORUS", 8), P("CHORUS", 16), P("OUTRO", 16) >>],
      ROCK_CLASSIC |-> [genre |-> "ROCK", bpm |-> 110, structure |-> <<
        P("INTRO", 4), P("VERSE", 8), P("CHORUS", 8),
        P("VERSE", 8), P("CHORUS", 8), P("SOLO", 8),
        P("CHORUS", 16), P("OUTRO", 4) >>],
      PUNK_ROCK |-> [genre |-> "ROCK", bpm |-> 160, structure |-> <<
        P("INTRO", 4), P("VERSE", 8), P("CHORUS", 8),
        P("VERSE", 8), P("CHORUS", 8), P("OUTRO", 4) >>],
      LOFI_BEAT |-> [genre |-> "LOFI", bpm |-> 80, structure |-> <<
        P("INTRO", 4), P("VERSE", 16), P("BRIDGE", 4),
        P("VERSE", 16), P("OUTRO", 8) >>],
      REGGAETON |-> [genre |-> "LATIN", bpm |-> 95, structure |-> <<
        P("INTRO", 4), P("CHORUS", 8), P("VERSE", 16),
        P("CHORUS", 8), P("VERSE", 16), P("CHORUS", 8), P("OUTRO", 4) >>],
      PERSIAN_SLOW_6_8 |-> [genre |-> "PERSIAN", bpm |-> 85, structure |-> <<
        P("INTRO", 4), P("VERSE", 8), P("PRE_CHORUS", 4), P("CHORUS", 8),
        P("SOLO", 8), P("VERSE", 8), P("CHORUS", 16), P("OUTRO", 8) >>],
      PERSIAN_POP_NOSTALGIA |-> [genre |-> "PERSIAN", bpm |-> 105, structure |-> <<
        P("INTRO", 8), P("VERSE", 8), P("CHORUS", 8), P("VERSE", 8),
        P("CHORUS", 8), P("BRIDGE", 8), P("CHORUS", 16), P("OUTRO", 8) >>] ]

Style(n, ps, secs) == [name |-> n, preferredScale |-> ps, sections |-> secs]

progressionStyles ==
    [ POP |-> <<
        Style("The Axis of Awesome", "Major",
          [INTRO |-> <<0>>, VERSE |-> <<0, 4>>, PRE_CHORUS |-> <<5, 3>>,
           CHORUS |-> <<0, 4, 5, 3>>, BRIDGE |-> <<3, 4, 3, 4>>,
           SOLO |-> <<0, 4, 5, 3>>, OUTRO |-> <<0>>]),
        Style("Emotional Ballad", "Major",
          [INTRO |-> <<5, 3>>, VERSE |-> <<5, 3>>, PRE_CHORUS |-> <<1, 4>>,
           CHORUS |-> <<5, 3, 0, 4>>, BRIDGE |-> <<2, 5, 1, 4>>,
           SOLO |-> <<5, 3, 0, 4>>, OUTRO |-> <<3, 0>>]),
        Style("Doo-Wop / 50s", "Major",
          [INTRO |-> <<0, 5, 3, 4>>, VERSE |-> <<0, 5, 3, 4>>, PRE_CHORUS |-> <<3, 4>>,
           CHORUS |-> <<0, 5, 3, 4>>, BRIDGE |-> <<1, 4, 0, 4>>,
           SOLO |-> <<0, 5, 3, 4>>, OUTRO |-> <<0, 3, 0>>]),
        Style("Royal Road (Anime/Epic)", "Major",
          [INTRO |-> <<3, 4, 2, 5>>, VERSE |-> <<0, 4, 5, 0>>, PRE_CHORUS |-> <<3, 4>>,
           CHORUS |-> <<3, 4, 2, 5>>, BRIDGE |-> <<1, 4, 3, 4>>,
           SOLO |-> <<3, 4, 2, 5>>, OUTRO |-> <<3, 4, 0>>]),
        Style("Dreamy / Psychedelic", "Major",
          [INTRO |-> <<0, 3>>, VERSE |-> <<0, 3>>, PRE_CHORUS |-> <<1, 4>>,
           CHORUS |-> <<0, 3, 0, 3>>, BRIDGE |-> <<5, 2, 3, 4>>,
           SOLO |-> <<0, 3>>, OUTRO |-> <<0>>]),
        Style("80s Synth-Pop Revival", "Major",
          [INTRO |-> <<5, 5, 3, 3>>, VERSE |-> <<5, 0, 4, 3>>, PRE_CHORUS |-> <<1, 4>>,
           CHORUS |-> <<5, 3, 0, 4>>, BRIDGE |-> <<3, 4, 3, 4>>,
           SOLO |-> <<5, 3, 0, 4>>, OUTRO |-> <<5>>]),
        Style("Gen-Z Alternative", "Minor",
          [INTRO |-> <<5>>, VERSE |-> <<5, 3>>, PRE_CHORUS |-> <<0, 4>>,
           CHORUS |-> <<5, 2, 3, 4>>, BRIDGE |-> <<1, 6, 5>>, OUTRO |-> <<5>>]) >>,
      EDM |-> <<
        Style("Festival Anthem", "Minor",
          [INTRO |-> <<5>>, VERSE |-> <<5, 2>>, PRE_CHORUS |-> <<3, 4>>,
           CHORUS |-> <<5, 3, 0, 4>>, DROP |-> <<5, 3, 0, 4>>,
           BRIDGE |-> <<1, 4>>, OUTRO |-> <<5, 0>>]),
        Style("Summer Vibes", "Major",
          [INTRO |-> <<3, 0>>, VERSE |-> <<3, 0>>, PRE_CHORUS |-> <<1, 4>>,
           CHORUS |-> <<3, 0, 4, 5>>, DROP |-> <<3, 0, 4, 5>>,
           BRIDGE |-> <<1, 3, 4>>, OUTRO |-> <<3, 3, 0>>]) >>,
      HIPHOP |-> <<
        Style("Dark Trap", "Phrygian",
          [INTRO |-> <<0, 1>>, VERSE |-> <<0, 1>>, PRE_CHORUS |-> <<3, 4>>,
           CHORUS |-> <<0, 2, 0, 1>>, BRIDGE |-> <<3, 4>>, OUTRO |-> <<0>>]),
        Style("Melodic / Emo Rap", "Minor",
          [INTRO |-> <<5, 4>>, VERSE |-> <<5, 4>>, PRE_CHORUS |-> <<3, 4>>,
           CHORUS |-> <<3, 4, 5, 5>>, BRIDGE |-> <<1, 4>>, OUTRO |-> <<5>>]) >>,
      ROCK |-> <<
        Style("Arena Rock", "Mixolydian",
          [INTRO |-> <<0, 6, 3>>, VERSE |-> <<0, 3>>, PRE_CHORUS |-> <<5, 4>>,
           CHORUS |-> <<0, 6, 3, 4>>, SOLO |-> <<0, 6, 3>>,
           BRIDGE |-> <<1, 4>>, OUTRO |-> <<0, 0, 0>>]),
        Style("Alternative / Grunge", "Minor",
          [INTRO |-> <<5, 2>>, VERSE |-> <<5, 2>>, PRE_CHORUS |-> <<3, 4>>,
           CHORUS |-> <<5, 0, 4, 4>>, SOLO |-> <<5, 0, 4>>, OUTRO |-> <<5>>]) >>,
      LOFI |-> <<
        Style("Jazz Hop (2-5-1)", "Dorian",
          [INTRO |-> <<1, 4>>, VERSE |-> <<1, 4, 0, 5>>, PRE_CHORUS |-> <<3, 6>>,
           CHORUS |-> <<1, 4, 0, 0>>, BRIDGE |-> <<3, 4>>,
           SOLO |-> <<1, 4, 0>>, OUTRO |-> <<0>>]),
        Style("Nostalgic Drift", "Major",
          [INTRO |-> <<3>>, VERSE |-> <<3, 2>>, PRE_CHORUS |-> <<1, 4>>,
           CHORUS |-> <<3, 2, 1, 4>>, BRIDGE |-> <<5, 4>>, OUTRO |-> <<0>>]) >>,
      LATIN |-> <<
        Style("Despacito Vibe", "Major",
          [INTRO |-> <<5, 3>>, VERSE |-> <<5, 3>>, PRE_CHORUS |-> <<0, 4>>,
           CHORUS |-> <<5, 3, 0, 4>>, BRIDGE |-> <<1, 4>>,
           SOLO |-> <<5, 3, 0, 4>>, OUTRO |-> <<5>>]),
        Style("Party Starter", "Minor",
          [INTRO |-> <<1, 4>>, VERSE |-> <<1, 4>>, PRE_CHORUS |-> <<3, 4>>,
           CHORUS |-> <<1, 4, 5, 5>>, SOLO |-> <<1, 4, 5>>, OUTRO |-> <<1>>]) >>,
      PERSIAN |-> <<
        Style("Ghomayshi Vibe (Andalusian)", "HarmonicMinor",
          [INTRO |-> <<4, 4, 0, 0>>, VERSE |-> <<0, 6, 5, 4>>,
           PRE_CHORUS |-> <<3, 0, 3, 4>>, CHORUS |-> <<0, 6, 5, 4>>,
           BRIDGE |-> <<5, 6, 3, 4>>, SOLO |-> <<0, 6, 5, 4>>, OUTRO |-> <<4, 0>>]),
        Style("6/8 Persian Ballad", "HarmonicMinor",
          [INTRO |-> <<0, 3>>, VERSE |-> <<0, 3, 4, 0>>, PRE_CHORUS |-> <<3, 0, 4, 4>>,
           CHORUS |-> <<2, 5, 3, 4>>, BRIDGE |-> <<1, 4>>, OUTRO |-> <<0>>]) >> ]

\* an arpeggiator style; a rest (null) of the pattern is -1 and the gate is
\* in tenths
Arp(p, r, g) == [pattern |-> p, rate |-> r, gateTenths |-> g]

arpStyles ==
    [ POP |-> [VERSE |-> Arp(<<0, 2>>, 2, 6),
               CHORUS |-> Arp(<<0, 1, 2, 3, 2, 1>>, 1, 9),
               BRIDGE |-> Arp(<<0, 3, 1, 2>>, 2, 11)],
      EDM |-> [VERSE |-> Arp(<<0, -1, 0, -1>>, 1, 4),
               CHORUS |-> Arp(<<0, 2, 3, 2>>, 1, 8),
               BUILDUP |-> Arp(<<0, 0, 0, 0, 1, 1, 1, 1>>, 1, 5)],
      ROCK |-> [VERSE |-> Arp(<<0, 1, 2, 1>>, 2, 15),
                CHORUS |-> Arp(<<0, 0, 1, 0, 2, 0>>, 1, 7),
                SOLO |-> Arp(<<0, 1, 2, 3>>, 1, 8)],
      LOFI |-> [VERSE |-> Arp(<<0, 1, 2, 3>>, 4, 12),
                CHORUS |-> Arp(<<0, 2, 1, 3>>, 2, 10),
                BRIDGE |-> Arp(<<0, -1, 1, -1>>, 4, 10)],
      LATIN |-> [VERSE |-> Arp(<<0, -1, 2>>, 2, 6),
                 CHORUS |-> Arp(<<0, -1, 1, 2, -1, 1>>, 1, 7)],
      HIPHOP |-> [VERSE |-> Arp(<<0, 2>>, 4, 5),
                  CHORUS |-> Arp(<<0, 1, 2>>, 2, 6)],
      PERSIAN |-> [VERSE |-> Arp(<<0, 1, 2, 3>>, 2, 8),
                   CHORUS |-> Arp(<<0, 1, 2, 3, 2, 1>>, 2, 9)] ]

Ins(b, p, l, a) == [bass |-> b, pad |-> p, lead |-> l, arp |-> a]

genreInstruments ==
    [ POP     |-> Ins("Analog Bass", "Soft Pad", "Saw Lead", "Distorted Guitar"),
      ROCK    |-> Ins("Analog Bass", "Vintage Synth Pad", "Distorted Guitar", "Distorted Guitar"),
      LOFI    |-> Ins("Sub Bass", "Dark Ocean Pad", "Vintage Rhodes", "Distorted Guitar"),
      EDM     |-> Ins("Analog Bass", "Bright Cloud Pad", "Saw Lead", "Distorted Guitar"),
      HIPHOP  |-> Ins("Sub Bass", "Soft Pad", "Soft Lead", "Distorted Guitar"),
      LATIN   |-> Ins("Analog Bass", "Electric Piano", "Saw Lead", "Distorted Guitar"),
      PERSIAN |-> Ins("Analog Bass", "Bright Cloud Pad", "Saw Lead", "Acoustic Guitar") ]

-----------------------------------------------------------------------------
(* Bounds of the inputs                                                    *)

MidiMax == 127                 \* the MIDI pitches are 0..MidiMax
PitchClasses == 0..11
Midis == 0..MidiMax

\* scale names given to the functions: the tables' keys, and the name
\* 'Phrygian' that progressionStyles uses and no table has
ScaleNames == DOMAIN scales \cup {"Phrygian"}

AllChordDefs == UNION {Range(chordDegrees[s]) : s \in DOMAIN chordDegrees}

MaxDegreeIdx == 7              \* chord degree indices tried: -1..MaxDegreeIdx
MaxBarNotes == 3               \* notes of a bar given to analyzeBarHarmony
MaxLength == 5                  \* bars asked of generateMelody: 0..MaxLength
MaxStartBar == 3                \* first bar asked: 0..MaxStartBar
MaxDraw == 1                    \* random draws of a rhythm: 0..MaxDraw
MaxMarkovBars == 4              \* bars asked of generateMelodyMarkov
MaxUndo == 2                    \* snapshots on the undo stack when a handler saves
MaxBars == 4                    \* bars the add-bar button grows the song to
MaxCalls == 4                   \* bar operations called in one run
MaxTracks == 2                  \* tracks the add-track menu grows the song to
MaxEvents == 2                  \* events tracked by the service worker
MaxFlushes == 2                 \* calls of flushOfflineQueue
BarNoteMidis == {0, 60, 64, 127}
BarNoteLists == UNION {[1..n -> BarNoteMidis] : n \in 0..MaxBarNotes}

-----------------------------------------------------------------------------
(* Theory / harmony analyzer (MusicBrain.js 829-951)                       *)

getScaleNotes(root, name) ==
    LET indices == OwnOr(scales, name, scales["Major"])
    IN  {i \in 0..126 : JsMod(i - root + 12, 12) \in Range(indices)}

\* the Set getScaleNotes returns for each root and scale name the melody
\* generators pass, built once
scaleNoteSets ==
    [root \in PitchClasses |-> [name \in ScaleNames |-> getScaleNotes(root, name)]]

\* getRealChordName (845-852): the template string `${rootName}${suffix}`
\* as the pair of its parts.  The suffix literal of line 850 is the two
\* characters U+00AC U+221E (not sign, infinity), written here by their
\* code points; the degree sign is U+00B0.
getRealChordName(chordDef, root) ==
    IF chordDef = Undefined THEN Throw      \* chordDef.intervals
    ELSE LET chordRootMidi == JsMod(root + chordDef.intervals[1], 12)
             rootName == noteNames[chordRootMidi + 1]
             suffix == IF chordDef.type = "Minor" THEN "m"
                       ELSE IF chordDef.type = "Dim" THEN "U+00AC U+221E"
                       ELSE ""
         IN  Return(<<rootName, suffix>>)

\* analyzeBarHarmony with Math.floor in place of Math.round
analyzeBarHarmony_Floor(barNotes, chordDefinition, root) ==
    IF chordDefinition = Undefined THEN [score |-> 0, details |-> "No Chord"]
    ELSE IF Len(barNotes) = 0 THEN [score |-> 100, details |-> "Empty"]
    ELSE LET allowedPCs == {JsMod(root + chordDefinition.intervals[k], 12) :
                                k \in DOMAIN chordDefinition.intervals}
             matchCount == Cardinality({k \in DOMAIN barNotes :
                                JsMod(barNotes[k], 12) \in allowedPCs})
         IN  [score |-> (100 * matchCount) \div Len(barNotes),
              chordName |-> chordDefinition.name]

analyzeBarHarmony(barNotes, chordDefinition, root) ==
    IF chordDefinition = Undefined THEN [score |-> 0, details |-> "No Chord"]
    ELSE IF Len(barNotes) = 0 THEN [score |-> 100, details |-> "Empty"]
    ELSE LET allowedPCs == {JsMod(root + chordDefinition.intervals[k], 12) :
                                k \in DOMAIN chordDefinition.intervals}
             matchCount == Cardinality({k \in DOMAIN barNotes :
                                JsMod(barNotes[k], 12) \in allowedPCs})
         IN  [score |-> RoundPercent(matchCount, Len(barNotes)),
              chordName |-> chordDefinition.name]

\* getNoteRole without the "+ 12" that keeps the interval non-negative
getNoteRole_NoWrap(midi, chordDef, scaleRoot, currentBarRootIdx) ==
    IF chordDef = Undefined THEN "UNKNOWN"
    ELSE LET noteIndex == JsMod(midi, 12)
             interval == JsMod(noteIndex - currentBarRootIdx, 12)
         IN  CASE interval = 0 -> "ROOT"
               [] interval = 7 -> "FIFTH"
               [] interval \in {3, 4} -> "THIRD"
               [] interval \in {10, 11} -> "SEVENTH"
               [] interval \in {2, 5, 9} -> "EXTENSION"
               [] OTHER -> "NON_CHORD"

getNoteRole(midi, chordDef, scaleRoot, currentBarRootIdx) ==
    IF chordDef = Undefined THEN "UNKNOWN"
    ELSE LET noteIndex == JsMod(midi, 12)
             interval == JsMod(noteIndex - currentBarRootIdx + 12, 12)
         IN  CASE interval = 0 -> "ROOT"
               [] interval = 7 -> "FIFTH"
               [] interval \in {3, 4} -> "THIRD"
               [] interval \in {10, 11} -> "SEVENTH"
               [] interval \in {2, 5, 9} -> "EXTENSION"
               [] OTHER -> "NON_CHORD"

\* getChordRootInScale without the final "% 12"
getChordRootInScale_NoMod(scaleRoot, name, chordDegreeIndex) ==
    LET chordDef == IF name \in DOMAIN chordDegrees
                    THEN DegreeAt(name, chordDegreeIndex) ELSE Undefined
    IN  IF chordDef = Undefined THEN 0
        ELSE scaleRoot + chordDef.intervals[1]

getChordRootInScale(scaleRoot, name, chordDegreeIndex) ==
    LET chordDef == IF name \in DOMAIN chordDegrees
                    THEN DegreeAt(name, chordDegreeIndex) ELSE Undefined
    IN  IF chordDef = Undefined THEN 0
        ELSE JsMod(scaleRoot + chordDef.intervals[1], 12)

-----------------------------------------------------------------------------
(* Property reads on the library objects.  table[key] finds the table's    *)
(* own entry, or what every object inherits from Object.prototype (for     *)
(* 'constructor' a function: truthy, with none of the libraries' own       *)
(* properties), or nothing.                                                *)

ObjectPrototypeKeys == {"constructor"}
Inherited == [inherited |-> TRUE]
Null == [null |-> TRUE]

IsInherited(tbl, key) == key \notin DOMAIN tbl /\ key \in ObjectPrototypeKeys

\* table[key] || fallback
GetOr(tbl, key, fallback) ==
    IF key \in DOMAIN tbl THEN tbl[key]
    ELSE IF key \in ObjectPrototypeKeys THEN Inherited
    ELSE fallback

\* obj[key] of a library record, or of an inherited function
JsProp(obj, key) ==
    IF obj = Inherited
    THEN (IF key \in ObjectPrototypeKeys THEN Inherited ELSE Undefined)
    ELSE GetOr(obj, key, Undefined)

-----------------------------------------------------------------------------
(* Structure wizard methods and genre lookups (MusicBrain.js 799-801,      *)
(* 1733-1800).  Each gives the call's completion: Return(value) or Throw.  *)

getInstrumentsForGenre(genre) ==
    Return(GetOr(genreInstruments, genre, genreInstruments.POP))

Repeat(x, n) == [i \in 1..n |-> x]

RECURSIVE Expand(_)
Expand(structure) ==
    IF structure = <<>> THEN <<>>
    ELSE Repeat(Head(structure).type, Head(structure).len)
            \o Expand(Tail(structure))

\* the expansion with the inner loop running to i <= part.len
RECURSIVE Expand_OneMore(_)
Expand_OneMore(structure) ==
    IF structure = <<>> THEN <<>>
    ELSE Repeat(Head(structure).type, Head(structure).len + 1)
            \o Expand_OneMore(Tail(structure))

generateSongStructure_OneMore(templateKey) ==
    IF IsInherited(songTemplates, templateKey) THEN Throw
    ELSE Return(Expand_OneMore(
            GetOr(songTemplates, templateKey, songTemplates.POP_RADIO).structure))

generateSongStructure(templateKey) ==
    IF IsInherited(songTemplates, templateKey) THEN Throw
    ELSE Return(Expand(
            GetOr(songTemplates, templateKey, songTemplates.POP_RADIO).structure))

\* rnd is Math.floor(Math.random() * styles.length)
getChordProgression(genreStyle, section, rnd) ==
    IF IsInherited(progressionStyles, genreStyle)
    THEN Throw      \* styles[rnd] is undefined, and .sections is read of it
    ELSE LET styles == GetOr(progressionStyles, genreStyle, progressionStyles.POP)
             selectedStyle == styles[rnd + 1]
         IN  IF section \in DOMAIN selectedStyle.sections
             THEN Return(selectedStyle.sections[section])
             ELSE IF section \in ObjectPrototypeKeys THEN Return(Inherited)
             ELSE Return(<<0, 5, 3, 4>>)

getStyleByVibe(genreKey, vibeIndex) ==
    IF IsInherited(progressionStyles, genreKey)
    THEN Return(Undefined)      \* styles[vibeIndex] || styles[0] of a function
    ELSE LET styles == GetOr(progressionStyles, genreKey, progressionStyles.POP)
         IN  IF vibeIndex + 1 \in DOMAIN styles
             THEN Return(styles[vibeIndex + 1])
             ELSE Return(styles[1])

getArpPattern(genre, section) ==
    LET genreStyles == GetOr(arpStyles, genre, arpStyles.POP)
        targetSection == IF section \in {"SOLO", "DROP"} THEN "CHORUS"
                         ELSE IF section = "PRE_CHORUS" THEN "VERSE"
                         ELSE section
        style == JsProp(genreStyles, targetSection)
    IN  IF section \in {"INTRO", "OUTRO"} THEN Return(Null)
        ELSE IF style # Undefined THEN Return(style)
        ELSE IF JsProp(genreStyles, "VERSE") # Undefined
             THEN Return(JsProp(genreStyles, "VERSE"))
        ELSE Return(JsProp(genreStyles, "CHORUS"))

-----------------------------------------------------------------------------
(* Drum pattern engine (MusicBrain.js 1532-1722)                           *)

KICK == 36
SNARE == 38
CHAT == 42
OHAT == 46
CRASH == 49
LO_TOM == 41
MID_TOM == 45
HI_TOM == 48

patterns ==
    [ ROCK    |-> [kick  |-> <<1,0,0,0, 0,0,1,0, 1,0,0,0, 0,0,1,0>>,
                   snare |-> <<0,0,0,0, 1,0,0,0, 0,0,0,0, 1,0,0,0>>,
                   hat   |-> <<1,1,1,1, 1,1,1,1, 1,1,1,1, 1,1,1,1>>],
      POP     |-> [kick  |-> <<1,0,0,0, 0,0,0,0, 1,0,0,0, 0,0,1,0>>,
                   snare |-> <<0,0,0,0, 1,0,0,0, 0,0,0,0, 1,0,0,0>>,
                   hat   |-> <<1,1,1,1, 1,1,1,1, 1,1,1,1, 1,1,1,1>>],
      TECHNO  |-> [kick  |-> <<1,0,0,0, 1,0,0,0, 1,0,0,0, 1,0,0,0>>,
                   snare |-> <<0,0,0,0, 1,0,0,0, 0,0,0,0, 1,0,0,0>>,
                   hat   |-> <<0,0,1,0, 0,0,1,0, 0,0,1,0, 0,0,1,0>>],
      EDM     |-> [kick  |-> <<1,0,0,0, 1,0,0,0, 1,0,0,0, 1,0,0,0>>,
                   snare |-> <<0,0,0,0, 1,0,0,0, 0,0,0,0, 1,0,0,0>>,
                   hat   |-> <<0,0,1,0, 0,0,1,0, 0,0,1,0, 0,0,1,0>>],
      HIPHOP  |-> [kick  |-> <<1,0,0,0, 0,0,0,0, 1,0,0,0, 0,0,0,0>>,
                   snare |-> <<0,0,0,0, 0,0,0,0, 1,0,0,0, 0,0,0,0>>,
                   hat   |-> <<1,0,1,0, 1,1,1,0, 1,0,1,0, 1,0,1,1>>],
      LOFI    |-> [kick  |-> <<1,0,0,0, 0,0,0,0, 0,0,1,0, 0,0,0,0>>,
                   snare |-> <<0,0,0,0, 1,0,0,0, 0,0,0,0, 1,0,0,0>>,
                   hat   |-> <<1,0,1,0, 1,0,1,0, 1,0,1,0, 1,0,1,0>>],
      LATIN   |-> [kick  |-> <<1,0,0,0, 1,0,0,0, 1,0,0,0, 1,0,0,0>>,
                   snare |-> <<0,0,0,1, 0,0,1,0, 0,0,0,1, 0,0,1,0>>,
                   hat   |-> <<1,0,1,0, 1,0,1,0, 1,0,1,0, 1,0,1,0>>],
      PERSIAN |-> [kick  |-> <<1,0,0,0, 0,0,1,0, 1,0,0,0, 0,0,0,0>>,
                   snare |-> <<0,0,0,0, 1,0,0,0, 0,0,0,0, 1,0,0,1>>,
                   hat   |-> <<1,1,1,1, 1,1,1,1, 1,1,1,1, 1,1,1,1>>] ]

\* the notes pushed by "if (c) notesToAdd.push(...)"
On(c, notes) == IF c THEN notes ELSE <<>>

\* the transition logic did not return: the base patterns follow
FallsThrough == [kind |-> "fallsThrough"]

\* the HIPHOP / TRAP fill (lines 1637-1642 and 1656-1661)
TrapFill(s) == On(s \in {8, 9, 10, 14, 15}, <<SNARE>>) \o On(s = 13, <<KICK>>)

\* Strategy C at s >= 8 (lines 1617-1671)
BuildupFill(genre, s) ==
    CASE genre = "ROCK" ->
            On(s \in {8, 9}, <<SNARE>>) \o On(s \in {10, 11}, <<MID_TOM>>)
            \o On(s \in {12, 13}, <<LO_TOM>>) \o On(s = 14, <<KICK>>)
            \o On(s = 15, <<SNARE>>)
      [] genre = "POP" ->
            On(s \in {8, 9}, <<SNARE>>) \o On(s = 10, <<KICK>>)
            \o On(s = 11, <<MID_TOM>>) \o On(s = 12, <<KICK>>)
            \o On(s = 13, <<HI_TOM>>) \o On(s = 14, <<SNARE, LO_TOM>>)
      [] genre = "TECHNO" -> <<SNARE>> \o On(s % 2 = 0, <<KICK>>)
      [] genre = "TRAP" -> TrapFill(s)
      [] OTHER ->
            IF genre \in {"ROCK", "PUNK_ROCK"} THEN <<>>
            ELSE IF genre = "POP" THEN <<>>
            ELSE IF genre \in {"TECHNO", "EDM"} THEN <<>>
            ELSE IF genre \in {"HIPHOP", "TRAP"} THEN TrapFill(s)
            ELSE On(s \in {14, 15}, <<SNARE>>)

\* the transition logic with the Chorus descent (Strategy B) taking over
\* from step 8 instead of step 12
TransitionLogic_DescentFrom8(genre, currentSection, nextSection, s) ==
    IF currentSection = "INTRO"
    THEN (IF s >= 14 THEN Return(<<SNARE>>) ELSE FallsThrough)
    ELSE IF currentSection = "CHORUS" /\ nextSection # "CHORUS"
            /\ nextSection # "OUTRO"
    THEN (IF s >= 8
          THEN Return(On(s = 12, <<HI_TOM>>) \o On(s = 13, <<MID_TOM>>)
                      \o On(s = 14, <<LO_TOM>>))
          ELSE FallsThrough)
    ELSE IF nextSection = "CHORUS" \/ nextSection = "OUTRO" \/ s >= 8
    THEN (IF s >= 8 THEN Return(BuildupFill(genre, s)) ELSE FallsThrough)
    ELSE FallsThrough

\* the transition logic with the Intro branch returning on every step of
\* the bar, not on the steps 14 and 15 only
TransitionLogic_IntroWholeBar(genre, currentSection, nextSection, s) ==
    IF currentSection = "INTRO"
    THEN Return(On(s >= 14, <<SNARE>>))
    ELSE IF currentSection = "CHORUS" /\ nextSection # "CHORUS"
            /\ nextSection # "OUTRO"
    THEN (IF s >= 12
          THEN Return(On(s = 12, <<HI_TOM>>) \o On(s = 13, <<MID_TOM>>)
                      \o On(s = 14, <<LO_TOM>>))
          ELSE FallsThrough)
    ELSE IF nextSection = "CHORUS" \/ nextSection = "OUTRO" \/ s >= 8
    THEN (IF s >= 8 THEN Return(BuildupFill(genre, s)) ELSE FallsThrough)
    ELSE FallsThrough

\* section 3 of getDrumPattern (lines 1593-1674), entered on a transition
\* bar at subStep 0
TransitionLogic(genre, currentSection, nextSection, s) ==
    IF currentSection = "INTRO"
    THEN (IF s >= 14 THEN Return(<<SNARE>>) ELSE FallsThrough)
    ELSE IF currentSection = "CHORUS" /\ nextSection # "CHORUS"
            /\ nextSection # "OUTRO"
    THEN (IF s >= 12
          THEN Return(On(s = 12, <<HI_TOM>>) \o On(s = 13, <<MID_TOM>>)
                      \o On(s = 14, <<LO_TOM>>))
          ELSE FallsThrough)
    ELSE IF nextSection = "CHORUS" \/ nextSection = "OUTRO" \/ s >= 8
    THEN (IF s >= 8 THEN Return(BuildupFill(genre, s)) ELSE FallsThrough)
    ELSE FallsThrough

\* section 4 of getDrumPattern (lines 1678-1721) at subStep 0
BasePattern(genre, currentSection, stepIndex, s) ==
    LET pt == GetOr(patterns, genre, patterns.POP)
        energetic == currentSection \in {"CHORUS", "SOLO"}
        readsKick == currentSection # "INTRO"
                        /\ (currentSection = "SOLO" \/ currentSection # "BRIDGE")
        readsSnare == currentSection # "INTRO" /\ currentSection # "OUTRO"
        readsHat == ~(energetic /\ genre # "TECHNO")
    IN  IF currentSection = "PRE_CHORUS"
        THEN Return(On(s % 4 = 0, <<KICK>>) \o On(s % 2 = 0, <<CHAT>>)
                    \o On(s \in {7, 15}, <<SNARE>>))
        ELSE IF pt = Inherited /\ (readsKick \/ readsSnare \/ readsHat)
        THEN Throw      \* pt.kick, pt.snare and pt.hat are undefined
        ELSE Return(
            (IF currentSection = "INTRO" THEN On(s \in {0, 8}, <<KICK>>)
             ELSE IF readsKick THEN On(pt.kick[s + 1] = 1, <<KICK>>)
             ELSE <<>>)
            \o (IF readsSnare THEN On(pt.snare[s + 1] = 1, <<SNARE>>) ELSE <<>>)
            \o (IF energetic /\ genre # "TECHNO"
                THEN (IF s % 4 = 2 THEN <<OHAT>> ELSE <<CHAT>>)
                ELSE On(pt.hat[s + 1] = 1, <<CHAT>>))
            \o On(energetic /\ stepIndex = 0, <<CRASH>>))

\* stepsPerBar / 16 need not be whole: Math.floor(stepIndex / (spb / 16)) is
\* floor(16 * stepIndex / spb), and stepIndex % (spb / 16) is 0 exactly
\* when spb divides 16 * stepIndex
getDrumPattern(genre, currentSection, nextSection, stepIndex, spb, isTransition) ==
    LET normalizedStep == (stepIndex * 16) \div spb
        subStepIsZero == (stepIndex * 16) % spb = 0
        s == normalizedStep % 16
        transition == IF isTransition /\ subStepIsZero
                      THEN TransitionLogic(genre, currentSection, nextSection, s)
                      ELSE FallsThrough
    IN  IF transition # FallsThrough THEN transition
        ELSE IF subStepIsZero THEN BasePattern(genre, currentSection, stepIndex, s)
        ELSE Return(<<>>)

-----------------------------------------------------------------------------
(* State (State.js constructor, lines 30-71)                               *)

SongDefaults ==
    /\ bpm = 120
    /\ rootKey = 0
    /\ vocalRangeType = "NONE"
    /\ stepsPerBar = 16
    /\ totalBars = 4
    /\ tracks = << [type |-> "SYNTH", preset |-> "Grand Piano"] >>
    /\ activeTrackIndex = 0
    /\ barChords = <<0, 0, 0, 0>>
    /\ barStructure = <<"NONE", "NONE", "NONE", "NONE">>

SongInit == SongDefaults /\ scaleName = "Major"

MelodyIdle == [pc |-> "idle"]

\* History.js constructor (lines 36-43)
HistoryInit == undoStack = <<>> /\ redoStack = <<>>

\* the service worker before any event: nothing queued, no call running
TaskIdle == [pc |-> "idle"]

WorkerInit ==
    /\ offlineQueue = <<>>
    /\ accepted = {}
    /\ track = [e \in 1..MaxEvents |-> TaskIdle]
    /\ flush = [f \in 1..MaxFlushes |-> TaskIdle]

-----------------------------------------------------------------------------
(* Calls of the theory functions.  The initial state holds the call with   *)
(* its arguments, still pending; the function's action applies it.         *)

Pending == [kind |-> "pending"]

TheoryCalls ==
    {[op |-> "getScaleNotes", rootKey |-> r, scaleName |-> s] :
        r \in PitchClasses, s \in ScaleNames}
    \cup
    {[op |-> "getChordRootInScale", scaleRoot |-> r, scaleName |-> s,
      chordDegreeIndex |-> i] :
        r \in PitchClasses, s \in ScaleNames, i \in -1..MaxDegreeIdx}
    \cup
    {[op |-> "analyzeBarHarmony", barNotes |-> n, chordDefinition |-> c,
      rootKey |-> r] :
        n \in BarNoteLists, c \in AllChordDefs \cup {Undefined},
        r \in PitchClasses}
    \cup
    {[op |-> "getNoteRole", midi |-> m, chordDef |-> c, scaleRoot |-> 0,
      currentBarRootIdx |-> cr] :
        m \in Midis, c \in {chordDegrees["Major"][1], Undefined},
        cr \in PitchClasses}
    \cup
    {[op |-> "getRealChordName", chordDef |-> c, rootKey |-> r] :
        c \in AllChordDefs, r \in PitchClasses}

CallGetScaleNotes ==
    /\ call.op = "getScaleNotes" /\ ret = Pending
    /\ ret' = Return(getScaleNotes(call.rootKey, call.scaleName))
    /\ UNCHANGED <<workerVars, clipboard, histVars, call, songVars, gen, prev>>

CallGetChordRootInScale ==
    /\ call.op = "getChordRootInScale" /\ ret = Pending
    /\ ret' = Return(getChordRootInScale(call.scaleRoot, call.scaleName,
                                         call.chordDegreeIndex))
    /\ UNCHANGED <<workerVars, clipboard, histVars, call, songVars, gen, prev>>

CallAnalyzeBarHarmony ==
    /\ call.op = "analyzeBarHarmony" /\ ret = Pending
    /\ ret' = Return(analyzeBarHarmony(call.barNotes, call.chordDefinition,
                                       call.rootKey))
    /\ UNCHANGED <<workerVars, clipboard, histVars, call, songVars, gen, prev>>

CallGetNoteRole ==
    /\ call.op = "getNoteRole" /\ ret = Pending
    /\ ret' = Return(getNoteRole(call.midi, call.chordDef, call.scaleRoot,
                                 call.currentBarRootIdx))
    /\ UNCHANGED <<workerVars, clipboard, histVars, call, songVars, gen, prev>>

InitTheory ==
    /\ call \in TheoryCalls
    /\ ret = Pending
    /\ HistoryInit
    /\ WorkerInit
    /\ clipboard = Null
    /\ prev = Pending
    /\ SongInit
    /\ gen = MelodyIdle

CallGetRealChordName ==
    /\ call.op = "getRealChordName" /\ ret = Pending
    /\ ret' = getRealChordName(call.chordDef, call.rootKey)
    /\ UNCHANGED <<workerVars, clipboard, histVars, call, songVars, gen, prev>>

NextTheory ==
    \/ CallGetScaleNotes
    \/ CallGetChordRootInScale
    \/ CallAnalyzeBarHarmony
    \/ CallGetNoteRole
    \/ CallGetRealChordName

SpecTheory == InitTheory /\ [][NextTheory]_vars

-----------------------------------------------------------------------------
(* The structure wizard (part_002 548-631) and calls of the structure      *)
(* methods and genre lookups.                                              *)

SectionTypes == {"INTRO", "VERSE", "PRE_CHORUS", "CHORUS", "BRIDGE", "SOLO",
                 "DROP", "OUTRO", "NONE"}

\* section keys given to the lookups: the section types, a key of arpStyles
\* only, and a key every object inherits
SectionKeys == SectionTypes \cup {"BUILDUP"} \cup ObjectPrototypeKeys

\* genre keys given to the lookups: the libraries' genres, the other genres
\* getDrumPattern names, a genre no table has, and an inherited key
GenreKeys == DOMAIN progressionStyles \cup {"TECHNO", "TRAP", "PUNK_ROCK", "JAZZ"}
                \cup ObjectPrototypeKeys

TemplateKeys == DOMAIN songTemplates \cup {"JAZZ_WALTZ"}

StepsPerBarValues == {12, 16, 32}    \* 3/4, 4/4 at 16 steps; 4/4 at 32 steps

MaxVibe == 7                         \* vibe indices tried: -1..MaxVibe

\* the scale of the song when the wizard runs: the default, a scale with
\* fewer than seven chord degrees, and the scale name that the 'Dark Trap'
\* style suggests and a project file can carry (State.loadProject)
SongScaleNames == {"Major", "PentatonicMajor", "Phrygian"}

\* what the wizard's selects can hold (part_002 1066-1092): a template of
\* the chosen genre and the index of one of the genre's styles
WizardCalls ==
    {c \in [op : {"applyStructure"}, templateKey : DOMAIN songTemplates,
            genreKey : DOMAIN progressionStyles, vibeIndex : 0..MaxVibe] :
        /\ songTemplates[c.templateKey].genre = c.genreKey
        /\ c.vibeIndex < Len(progressionStyles[c.genreKey])}

\* the values Math.floor(Math.random() * styles.length) can take
StyleDraws(genre) ==
    IF IsInherited(progressionStyles, genre) THEN {0}
    ELSE 0..(Len(GetOr(progressionStyles, genre, progressionStyles.POP)) - 1)

LookupCalls ==
    {[op |-> "generateSongStructure", templateKey |-> t] : t \in TemplateKeys}
    \cup
    {c \in [op : {"getChordProgression"}, genre : GenreKeys,
            section : SectionKeys, rnd : 0..MaxVibe] : c.rnd \in StyleDraws(c.genre)}
    \cup
    [op : {"getStyleByVibe"}, genre : GenreKeys, vibeIndex : -1..MaxVibe]
    \cup
    [op : {"getInstrumentsForGenre"}, genre : GenreKeys]
    \cup
    [op : {"getArpPattern"}, genre : GenreKeys, section : SectionKeys]
    \cup
    {c \in [op : {"getDrumPattern"}, genre : GenreKeys,
            currentSection : SectionTypes \ {"DROP"},
            nextSection : SectionTypes \ {"DROP"},
            stepIndex : 0..31, stepsPerBar : StepsPerBarValues,
            isTransition : BOOLEAN] : c.stepIndex < c.stepsPerBar}

\* the chord list of a bar's section (part_002 581-593)
SectionChords(style, currentSection) ==
    LET target == IF currentSection \in {"SOLO", "DROP"} THEN "CHORUS"
                  ELSE currentSection
    IN  IF target \in DOMAIN style.sections THEN style.sections[target]
        ELSE IF "CHORUS" \in DOMAIN style.sections THEN style.sections.CHORUS
        ELSE IF "VERSE" \in DOMAIN style.sections THEN style.sections.VERSE
        ELSE <<0>>

\* the loop indexing each list from the first bar of the bar's section
\* run, not from the first bar of the song
AssignChords_RestartPhase(structure, style) ==
    [k \in 1..Len(structure) |->
        LET sectionChords == SectionChords(style, structure[k])
            first == CHOOSE f \in 1..k :
                        /\ \A j \in f..k : structure[j] = structure[k]
                        /\ (f = 1 \/ structure[f - 1] # structure[k])
        IN  sectionChords[((k - first) % Len(sectionChords)) + 1]]

\* the loop of part_002 579-597; bar i of the code is element i + 1
AssignChords(structure, style) ==
    [k \in 1..Len(structure) |->
        LET sectionChords == SectionChords(style, structure[k])
        IN  sectionChords[((k - 1) % Len(sectionChords)) + 1]]

\* generateLeadForWholeSong (part_002 1254-1278) throws when generateMelody
\* does: a bar of a generated 4-bar window whose chord index has no entry
\* in the song scale's chord-degree table reaches pickSmoothNote (1465)
LeadThrows(scale, structure, chords) ==
    \E bar \in 0..(Len(structure) - 1), b \in 0..3 :
        /\ bar % 4 = 0
        /\ structure[bar + 1] \in {"CHORUS", "DROP", "SOLO"}
        /\ bar + b < Len(structure)
        /\ DegreeAt(scale, chords[bar + b + 1]) = Undefined

Track(t, p) == [type |-> t, preset |-> p]

\* the tracks added by part_002 599-623, up to the generator that throws
WizardTracks(genreKey, scale, structure, chords) ==
    LET instruments == getInstrumentsForGenre(genreKey).value
        five == << Track("DRUMS", "Standard"), Track("SYNTH", instruments.bass),
                   Track("SYNTH", instruments.pad), Track("SYNTH", instruments.lead),
                   Track("SYNTH", instruments.arp) >>
    IN  IF scale \notin DOMAIN scales THEN SubSeq(five, 1, 2)
        ELSE IF scale \notin DOMAIN chordDegrees THEN SubSeq(five, 1, 3)
        ELSE IF LeadThrows(scale, structure, chords) THEN SubSeq(five, 1, 4)
        ELSE five

ApplyStructure ==
    /\ call.op = "applyStructure" /\ ret = Pending
    /\ IF call.templateKey \notin DOMAIN songTemplates
       THEN /\ ret' = Return(Undefined)
            /\ UNCHANGED <<bpm, totalBars, barStructure, barChords, tracks,
                           activeTrackIndex>>
       ELSE LET structure == generateSongStructure(call.templateKey).value
                selectedStyle == getStyleByVibe(call.genreKey, call.vibeIndex).value
                chords == AssignChords(structure, selectedStyle)
                added == WizardTracks(call.genreKey, scaleName, structure, chords)
            IN  /\ bpm' = songTemplates[call.templateKey].bpm
                /\ totalBars' = Len(structure)
                /\ barStructure' = structure
                /\ barChords' = chords
                /\ tracks' = added
                /\ activeTrackIndex' = Len(added) - 1
                /\ ret' = IF Len(added) = 5 THEN Return(Undefined) ELSE Throw
    /\ UNCHANGED <<workerVars, clipboard, histVars, call, prev, rootKey, scaleName, vocalRangeType, stepsPerBar, gen>>

\* run once, and once more: prev keeps the first outcome
CallGenerateSongStructure ==
    /\ call.op = "generateSongStructure" /\ prev = Pending
    /\ prev' = ret
    /\ ret' = generateSongStructure(call.templateKey)
    /\ UNCHANGED <<workerVars, clipboard, histVars, call, songVars, gen>>

CallGetChordProgression ==
    /\ call.op = "getChordProgression" /\ ret = Pending
    /\ ret' = getChordProgression(call.genre, call.section, call.rnd)
    /\ UNCHANGED <<workerVars, clipboard, histVars, call, songVars, gen, prev>>

CallGetStyleByVibe ==
    /\ call.op = "getStyleByVibe" /\ ret = Pending
    /\ ret' = getStyleByVibe(call.genre, call.vibeIndex)
    /\ UNCHANGED <<workerVars, clipboard, histVars, call, songVars, gen, prev>>

CallGetInstrumentsForGenre ==
    /\ call.op = "getInstrumentsForGenre" /\ ret = Pending
    /\ ret' = getInstrumentsForGenre(call.genre)
    /\ UNCHANGED <<workerVars, clipboard, histVars, call, songVars, gen, prev>>

CallGetArpPattern ==
    /\ call.op = "getArpPattern" /\ ret = Pending
    /\ ret' = getArpPattern(call.genre, call.section)
    /\ UNCHANGED <<workerVars, clipboard, histVars, call, songVars, gen, prev>>

CallGetDrumPattern ==
    /\ call.op = "getDrumPattern" /\ ret = Pending
    /\ ret' = getDrumPattern(call.genre, call.currentSection, call.nextSection,
                             call.stepIndex, call.stepsPerBar, call.isTransition)
    /\ UNCHANGED <<workerVars, clipboard, histVars, call, songVars, gen, prev>>

InitStructure ==
    /\ ret = Pending
    /\ HistoryInit
    /\ WorkerInit
    /\ clipboard = Null
    /\ prev = Pending
    /\ gen = MelodyIdle
    /\ SongDefaults
    /\ \/ call \in LookupCalls /\ scaleName = "Major"
       \/ call \in WizardCalls /\ scaleName \in SongScaleNames

NextStructure ==
    \/ ApplyStructure
    \/ CallGenerateSongStructure
    \/ CallGetChordProgression
    \/ CallGetStyleByVibe
    \/ CallGetInstrumentsForGenre
    \/ CallGetArpPattern
    \/ CallGetDrumPattern

SpecStructure == InitStructure /\ [][NextStructure]_vars

-----------------------------------------------------------------------------
(* Melody engine helpers (MusicBrain.js 1313-1518)                         *)

\* the rhythm a random draw rnd picks; a pattern is a sequence of
\* [duration, isRest]
RhythmNote(d) == [duration |-> d, isRest |-> FALSE]
RhythmRest(d) == [duration |-> d, isRest |-> TRUE]

motifs ==
    [ LOW    |-> << <<4, 4, 8>>, <<6, 2, 8>>, <<8, 4, 4>>, <<4, 4, 4, 4>> >>,
      MEDIUM |-> << <<3, 3, 2, 4, 4>>, <<4, 2, 2, 8>>, <<2, 2, 4, 4, 4>>,
                    <<4, 4, 2, 2, 4>>, <<6, 2, 6, 2>> >>,
      HIGH   |-> << <<2, 2, 2, 2, 4, 4>>, <<3, 1, 3, 1, 4, 4>>, <<2, 4, 2, 4, 4>> >> ]

generateMelodicRhythm(complexity, rnd) ==
    LET list == OwnOr(motifs, complexity, motifs.MEDIUM)
        base == list[rnd + 1]
    IN  [k \in DOMAIN base |-> RhythmNote(base[k])]

variateRhythmSimple(pattern) ==
    IF Len(pattern) > 0 /\ pattern[1].duration >= 4
    THEN << RhythmNote(pattern[1].duration \div 2),
            RhythmNote(pattern[1].duration \div 2) >> \o Tail(pattern)
    ELSE pattern

getIntroArpeggio == << RhythmNote(4), RhythmRest(4), RhythmNote(4), RhythmRest(4) >>

\* element k (0-based) of a set of numbers in ascending order
Nth(S, k) == CHOOSE x \in S : Cardinality({y \in S : y < x}) = k

Abs(x) == IF x < 0 THEN -x ELSE x

SetMax(S) == CHOOSE x \in S : \A y \in S : y <= x

\* pickSmoothNote returned null
ReturnNull == [kind |-> "return", null |-> TRUE]

\* the score of a candidate before the random term (lines 1488-1505)
SmoothScore(note, lastMidi, allowedPCs, isStrongBeat) ==
    LET absDist == Abs(note - lastMidi)
        proximity == IF absDist = 0 THEN -5
                     ELSE IF absDist <= 2 THEN 20
                     ELSE IF absDist <= 4 THEN 10
                     ELSE IF absDist <= 5 THEN 5
                     ELSE -(absDist * 2)
        harmony == IF JsMod(note, 12) \in allowedPCs
                   THEN (IF isStrongBeat THEN 15 ELSE 5)
                   ELSE (IF ~isStrongBeat THEN 5 ELSE -5)
    IN  proximity + harmony

\* pickSmoothNote starting a phrase on the first in-range tone instead of
\* the middle one
pickSmoothNote_First(lastMidi, chordDef, root, scaleNotes, min, max, isStrongBeat, isPhraseStart) ==
    IF chordDef = Undefined THEN {Throw}
    ELSE LET allowedPCs == {JsMod(root + chordDef.intervals[k], 12) :
                                k \in DOMAIN chordDef.intervals}
             scaleTones == {m \in min..max : m \in scaleNotes}
             chordTones == {m \in scaleTones : JsMod(m, 12) \in allowedPCs}
             Score(n) == SmoothScore(n, lastMidi, allowedPCs, isStrongBeat)
             best == SetMax({Score(n) : n \in scaleTones})
         IN  IF scaleTones = {} THEN {ReturnNull}
             ELSE IF isPhraseStart \/ lastMidi = -1
             THEN (IF chordTones # {} THEN {Return(Nth(chordTones, 0))}
                   ELSE {Return(Nth(scaleTones, 0))})
             ELSE {Return(n) : n \in {m \in scaleTones : Score(m) >= best - 7}}

\* The completions pickSmoothNote can have.  Each candidate's score gets
\* Math.random() * 8, a value in [0, 8), and the scores are whole: a
\* candidate can end as bestNote exactly when its score is within 7 of
\* the highest.
pickSmoothNote(lastMidi, chordDef, root, scaleNotes, min, max, isStrongBeat, isPhraseStart) ==
    IF chordDef = Undefined THEN {Throw}    \* chordDef.intervals
    ELSE LET allowedPCs == {JsMod(root + chordDef.intervals[k], 12) :
                                k \in DOMAIN chordDef.intervals}
             scaleTones == {m \in min..max : m \in scaleNotes}
             chordTones == {m \in scaleTones : JsMod(m, 12) \in allowedPCs}
             Score(n) == SmoothScore(n, lastMidi, allowedPCs, isStrongBeat)
             best == SetMax({Score(n) : n \in scaleTones})
         IN  IF scaleTones = {} THEN {ReturnNull}
             ELSE IF isPhraseStart \/ lastMidi = -1
             THEN (IF chordTones # {}
                   THEN {Return(Nth(chordTones, Cardinality(chordTones) \div 2))}
                   ELSE {Return(Nth(scaleTones, Cardinality(scaleTones) \div 2))})
             ELSE {Return(n) : n \in {m \in scaleTones : Score(m) >= best - 7}}

-----------------------------------------------------------------------------
(* generateMelody (MusicBrain.js 965-1066), one action per loop step.      *)
(* newNotes is only appended to and returned: the frame keeps the note     *)
(* pushed last and the number pushed.  A note is [midi, time, duration].   *)

NoNote == [none |-> TRUE]

\* state.barStructure[bar], undefined beyond the array, with its fallback
SectionAt(bar) ==
    IF bar + 1 \in DOMAIN barStructure THEN barStructure[bar + 1] ELSE "NONE"

\* state.barChords[bar] || 0
ChordIdxAt(bar) ==
    IF bar + 1 \in DOMAIN barChords THEN barChords[bar + 1] ELSE 0

VocalRange == IF vocalRangeType \in DOMAIN vocalRanges
              THEN vocalRanges[vocalRangeType] ELSE [min |-> 48, max |-> 84]

\* lines 971-978
TargetMin(startBar) ==
    IF SectionAt(startBar) = "CHORUS" THEN VocalRange.min + 4 ELSE VocalRange.min

TargetMax(startBar) ==
    IF SectionAt(startBar) = "VERSE" THEN VocalRange.max - 4 ELSE VocalRange.max

\* BarRhythm without the phrase-end branch of lines 1003-1009
BarRhythm_NoPhraseEnd(b, length, currentSection, mainRhythm, restDraw) ==
    IF currentSection = "INTRO" THEN getIntroArpeggio
    ELSE IF b = length - 1 THEN << RhythmNote(stepsPerBar) >>
    ELSE IF b % 4 = 2 THEN variateRhythmSimple(mainRhythm)
    ELSE mainRhythm

\* BarRhythm with the variation of lines 1010-1012 at position 1 as well
BarRhythm_VariesBar1(b, length, currentSection, mainRhythm, restDraw) ==
    IF currentSection = "INTRO" THEN getIntroArpeggio
    ELSE IF b = length - 1 THEN << RhythmNote(stepsPerBar) >>
    ELSE IF b % 4 = 3
         THEN << RhythmNote(8), [duration |-> 8, isRest |-> restDraw] >>
    ELSE IF b % 4 \in {1, 2} THEN variateRhythmSimple(mainRhythm)
    ELSE mainRhythm

\* lines 996-1022; restDraw is Math.random() > 0.5 of line 1007
BarRhythm(b, length, currentSection, mainRhythm, restDraw) ==
    IF currentSection = "INTRO" THEN getIntroArpeggio
    ELSE IF b = length - 1 THEN << RhythmNote(stepsPerBar) >>
    ELSE IF b % 4 = 3
         THEN << RhythmNote(8), [duration |-> 8, isRest |-> restDraw] >>
    ELSE IF b % 4 = 2 THEN variateRhythmSimple(mainRhythm)
    ELSE mainRhythm

\* the setup of generateMelody writing the range it works in back to the
\* state
GenerateMelodyBegin_WritesRange ==
    /\ call.op = "generateMelody" /\ ret = Pending /\ gen.pc = "idle"
    /\ gen' = [pc |-> "bar", b |-> 0, lastMidi |-> -1, note |-> NoNote,
               count |-> 0]
    /\ vocalRangeType' = "NONE"
    /\ UNCHANGED <<workerVars, clipboard, histVars, call, ret, prev, bpm, rootKey, scaleName, stepsPerBar,
                   totalBars, barChords, barStructure, tracks, activeTrackIndex>>

\* lines 966-985
GenerateMelodyBegin ==
    /\ call.op = "generateMelody" /\ ret = Pending /\ gen.pc = "idle"
    /\ gen' = [pc |-> "bar", b |-> 0, lastMidi |-> -1, note |-> NoNote,
               count |-> 0]
    /\ UNCHANGED <<workerVars, clipboard, histVars, call, ret, prev, songVars>>

\* lines 987-1022, and the return of line 1065
GenerateMelodyBar ==
    /\ call.op = "generateMelody" /\ gen.pc = "bar"
    /\ LET currentBar == call.startBar + gen.b
       IN  IF gen.b >= call.length \/ currentBar >= totalBars
           THEN /\ ret' = Return([length |-> gen.count])
                /\ gen' = [gen EXCEPT !.pc = "done"]
           ELSE IF scaleName \notin DOMAIN chordDegrees
           THEN /\ ret' = Throw         \* chordDegrees[scaleName][chordIdx]
                /\ gen' = [gen EXCEPT !.pc = "done"]
           ELSE \E restDraw \in BOOLEAN :
                /\ gen.b % 4 # 3 => restDraw = FALSE
                /\ gen' = [pc |-> "note", b |-> gen.b, lastMidi |-> gen.lastMidi,
                           note |-> gen.note, count |-> gen.count,
                           pattern |-> BarRhythm(gen.b, call.length,
                                SectionAt(currentBar),
                                generateMelodicRhythm(call.complexity, call.rnd),
                                restDraw),
                           i |-> 1, stepCursor |-> 0]
                /\ UNCHANGED ret
    /\ UNCHANGED <<workerVars, clipboard, histVars, call, prev, songVars>>

\* one turn of the loop of lines 1026-1063
GenerateMelodyNote ==
    /\ call.op = "generateMelody" /\ gen.pc = "note"
    /\ IF gen.i > Len(gen.pattern) \/ gen.stepCursor >= stepsPerBar
       THEN /\ gen' = [pc |-> "bar", b |-> gen.b + 1, lastMidi |-> gen.lastMidi,
                       note |-> gen.note, count |-> gen.count]
            /\ UNCHANGED ret
       ELSE LET noteDef == gen.pattern[gen.i]
                currentBar == call.startBar + gen.b
                dur == IF gen.stepCursor + noteDef.duration > stepsPerBar
                       THEN stepsPerBar - gen.stepCursor ELSE noteDef.duration
                Advance(last, pushed, n) ==
                    [gen EXCEPT !.i = gen.i + 1, !.stepCursor = gen.stepCursor + dur,
                                !.lastMidi = last, !.note = pushed, !.count = n]
            IN  IF noteDef.isRest
                THEN /\ gen' = Advance(gen.lastMidi, gen.note, gen.count)
                     /\ UNCHANGED ret
                ELSE \E picked \in pickSmoothNote(gen.lastMidi,
                            DegreeAt(scaleName, ChordIdxAt(currentBar)), rootKey,
                            scaleNoteSets[rootKey][scaleName],
                            TargetMin(call.startBar), TargetMax(call.startBar),
                            gen.stepCursor % 4 = 0,
                            gen.stepCursor = 0 /\ gen.b % 4 = 0) :
                     IF picked = Throw
                     THEN /\ ret' = Throw
                          /\ gen' = [gen EXCEPT !.pc = "done"]
                     ELSE IF picked = ReturnNull \/ picked.value = 0
                     THEN /\ gen' = Advance(gen.lastMidi, gen.note, gen.count)
                          /\ UNCHANGED ret
                     ELSE /\ gen' = Advance(picked.value,
                                    [midi |-> picked.value,
                                     time |-> currentBar * stepsPerBar + gen.stepCursor,
                                     duration |-> dur],
                                    gen.count + 1)
                          /\ UNCHANGED ret
    /\ UNCHANGED <<workerVars, clipboard, histVars, call, prev, songVars>>

\* pickSmoothNote called by itself
CallPickSmoothNote ==
    /\ call.op = "pickSmoothNote" /\ ret = Pending
    /\ ret' \in pickSmoothNote(call.lastMidi, call.chordDef, call.rootKey,
                               scaleNoteSets[call.rootKey][call.scaleName],
                               call.min, call.max, call.isStrongBeat,
                               call.isPhraseStart)
    /\ UNCHANGED <<workerVars, clipboard, histVars, call, prev, songVars, gen>>

-----------------------------------------------------------------------------
(* generateMelodyMarkov (MusicBrain.js 1079-1222), one action per loop     *)
(* step, called as the melody panel does (part_002 524-535).               *)

MotifNote(d) == [dur |-> d, type |-> "NOTE"]
MotifRest(d) == [dur |-> d, type |-> "REST"]

\* the rhythms of generateGoodMotif in quarters of a beat (the second
\* definition of the method, lines 1313-1345, is the one the class keeps)
patternsLow == << <<4, 4, 4, 4>>, <<6, 2, 4, 4>>, <<8, 4, 4>> >>
patternsHigh == << <<2, 2, 4, 2, 2, 4>>, <<3, 1, 4, 3, 1, 4>>, <<4, 2, 2, 2, 2, 4>> >>

MotifSource(complexity) ==
    IF complexity = "MEDIUM" THEN patternsLow \o patternsHigh
    ELSE IF complexity = "HIGH" THEN patternsHigh
    ELSE patternsLow

\* beat is spb / 4, so a rhythm value of q quarter beats is spb * q / 16
generateGoodMotif(complexity, spb, rnd) ==
    LET rawRhythm == MotifSource(complexity)[rnd + 1]
        Floor(q) == (spb * q) \div 16
    IN  [k \in DOMAIN rawRhythm |->
            MotifNote(IF Floor(rawRhythm[k]) > 1 THEN Floor(rawRhythm[k]) ELSE 1)]

\* the pools of the first definition of generateGoodMotif (lines 1227-1306,
\* with the vibe), in quarter beats; the class does not keep this
\* definition, the one of lines 1313-1345 replaces it
vibePatterns(vibe, complexity) ==
    IF vibe = "ANTHEM"
    THEN << <<8, 8>>, <<16>>, <<4, 4, 8>>, <<6, 2, 8>>, <<8, 4, 4>>, <<12, 4>>,
            <<4, 4, 4, 4>>, <<2, 2, 4, 8>>, <<10, 2, 4>> >>
    ELSE IF vibe = "CHATTY"
    THEN << <<4, 4, 4, 4>>, <<2, 2, 4, 4, 4>>, <<4, 2, 2, 4, 4>>,
            <<2, 2, 2, 2, 4, 4>>, <<2, 4, 2, 4, 4>>, <<4, 4, 2, 2, 4>>,
            <<4, 4, 8>>, <<2, 2, 4, 8>>, <<3, 1, 4, 4, 4>> >>
         \o (IF complexity = "HIGH"
             THEN << <<1, 1, 2, 4, 4, 4>>, <<2, 2, 2, 2, 2, 2, 4>> >>
             ELSE << >>)
    ELSE IF vibe = "SYNC"
    THEN << <<6, 6, 4>>, <<3, 1, 4, 6, 2>>, <<2, 4, 2, 4, 4>>, <<4, 2, 4, 2, 4>> >>
    ELSE << <<16>>, <<8, 8>>, <<12, 4>>, <<16>> >>

\* the vibe each entry of motifBank is asked with (lines 1091-1097)
bankVibe ==
    [INTRO |-> "SPARSE", VERSE |-> "CHATTY", CHORUS |-> "ANTHEM",
     BRIDGE |-> "SYNC", OUTRO |-> "SPARSE"]

RECURSIVE variateMotifFrom(_, _)
variateMotifFrom(motif, i) ==
    IF i > Len(motif) THEN motif
    ELSE IF motif[i].dur >= 4 /\ motif[i].type = "NOTE"
    THEN SubSeq(motif, 1, i - 1)
            \o << MotifNote(motif[i].dur \div 2), MotifNote(motif[i].dur \div 2) >>
            \o SubSeq(motif, i + 1, Len(motif))
    ELSE variateMotifFrom(motif, i + 1)

variateMotif(motif) == variateMotifFrom(motif, 1)

getScaleNotesArr(root, name, minMidi, maxMidi) ==
    {m \in minMidi..maxMidi : m \in scaleNoteSets[root][name]}

\* chordMap[bar] of part_002 524-532 as pitch classes (line 1113); empty
\* where the bar's chord index has no chord definition
ChordClasses(bar) ==
    LET chordIdx == ChordIdxAt(bar)
        chordDef == DegreeAt(scaleName, chordIdx)
        rootNote == getChordRootInScale(rootKey, scaleName, chordIdx)
    IN  IF chordDef = Undefined THEN {}
        ELSE {JsMod(rootNote + chordDef.intervals[k] + 60, 12) :
                k \in DOMAIN chordDef.intervals}

\* motifBank[currentSection] || motifBank['VERSE']
MotifSection(section) ==
    IF section \in {"INTRO", "VERSE", "CHORUS", "BRIDGE", "OUTRO"} THEN section
    ELSE "VERSE"

\* structure[absoluteBar] ? structure[absoluteBar] : 'VERSE'
MarkovSectionAt(bar) ==
    IF bar + 1 \in DOMAIN barStructure THEN barStructure[bar + 1] ELSE "VERSE"

\* the candidates of lines 1175-1191 in sorted order: by distance from
\* lastMidi, a repeat last, ties in ascending pitch (the sort is stable)
SortKey(n, lastMidi) ==
    (IF n = lastMidi THEN 100 ELSE Abs(n - lastMidi)) * 128 + n

\* MarkovCandidates without the chord tones of a strong beat (lines
\* 1178-1180 left out)
MarkovCandidates_NoChord(validRangeNotes, lastMidi, chordClasses, isStrongBeat) ==
    LET neighbors == {n \in validRangeNotes : Abs(n - lastMidi) <= 7}
    IN  IF neighbors # {} THEN neighbors
        ELSE {n \in validRangeNotes : Abs(n - lastMidi) <= 12}

MarkovCandidates(validRangeNotes, lastMidi, chordClasses, isStrongBeat) ==
    LET neighbors == {n \in validRangeNotes : Abs(n - lastMidi) <= 7}
        onChord == IF isStrongBeat /\ chordClasses # {}
                   THEN {n \in neighbors : JsMod(n, 12) \in chordClasses}
                   ELSE {}
    IN  IF onChord # {} THEN onChord
        ELSE IF neighbors # {} THEN neighbors
        ELSE {n \in validRangeNotes : Abs(n - lastMidi) <= 12}

\* element idx (0-based) of the sorted candidates
SortedAt(candidates, lastMidi, idx) ==
    CHOOSE n \in candidates :
        Cardinality({m \in candidates :
            SortKey(m, lastMidi) < SortKey(n, lastMidi)}) = idx

Min2(a, b) == IF a < b THEN a ELSE b

\* the pitches lines 1157-1202 can choose
MarkovTargets(currentSection, lastMidi, chordClasses, isStrongBeat) ==
    LET allScaleNotes == getScaleNotesArr(rootKey, scaleName, 55, 84)
        validRangeNotes == IF currentSection = "CHORUS"
                           THEN {n \in allScaleNotes : n >= 65}
                           ELSE allScaleNotes
        midRange == {n \in validRangeNotes : n >= 60 /\ n <= 72}
        starters == IF midRange # {} THEN midRange ELSE validRangeNotes
        chordStarters == {n \in starters : JsMod(n, 12) \in chordClasses}
        candidates == MarkovCandidates(validRangeNotes, lastMidi, chordClasses,
                                       isStrongBeat)
    IN  IF lastMidi = -1
        THEN (IF chordStarters # {} THEN chordStarters ELSE starters)
        ELSE IF candidates # {}
        THEN {SortedAt(candidates, lastMidi,
                       Min2(idx, Cardinality(candidates) - 1)) : idx \in 0..2}
        ELSE {lastMidi}

\* lines 1080-1102; the motif of each section is drawn when the bank is
\* built
GenerateMelodyMarkovBegin ==
    /\ call.op = "generateMelodyMarkov" /\ ret = Pending /\ gen.pc = "idle"
    /\ \E bank \in [{"INTRO", "VERSE", "CHORUS", "BRIDGE", "OUTRO"} ->
                        0..Min2(MaxDraw, Len(MotifSource(call.complexity)) - 1)] :
        /\ \A sec \in DOMAIN bank :
              (\A b \in 0..(call.numBars - 1) :
                    MotifSection(MarkovSectionAt(call.startBar + b)) # sec)
                => bank[sec] = 0
        /\ gen' = [pc |-> "bar", b |-> 0, lastMidi |-> -1, note |-> NoNote,
                   count |-> 0, motifBank |-> bank]
    /\ UNCHANGED <<workerVars, clipboard, histVars, call, ret, prev, songVars>>

\* lines 1104-1134, and the return of line 1221
GenerateMelodyMarkovBar ==
    /\ call.op = "generateMelodyMarkov" /\ gen.pc = "bar"
    /\ IF gen.b >= call.numBars
       THEN /\ ret' = Return([length |-> gen.count])
            /\ gen' = [gen EXCEPT !.pc = "done"]
       ELSE LET currentSection == MarkovSectionAt(call.startBar + gen.b)
                baseMotif == generateGoodMotif(call.complexity, stepsPerBar,
                                gen.motifBank[MotifSection(currentSection)])
                beat2 == stepsPerBar \div 2
                currentPattern ==
                    IF gen.b % 4 = 3 THEN << MotifNote(beat2), MotifRest(beat2) >>
                    ELSE IF gen.b % 4 = 2 THEN variateMotif(baseMotif)
                    ELSE baseMotif
            IN  /\ gen' = [pc |-> "note", b |-> gen.b, lastMidi |-> gen.lastMidi,
                           note |-> gen.note, count |-> gen.count,
                           motifBank |-> gen.motifBank,
                           pattern |-> currentPattern, i |-> 1, stepCursor |-> 0]
                /\ UNCHANGED ret
    /\ UNCHANGED <<workerVars, clipboard, histVars, call, prev, songVars>>

\* one turn of the loop of lines 1139-1218
GenerateMelodyMarkovNote ==
    /\ call.op = "generateMelodyMarkov" /\ gen.pc = "note"
    /\ IF gen.i > Len(gen.pattern) \/ gen.stepCursor >= stepsPerBar
       THEN gen' = [pc |-> "bar", b |-> gen.b + 1, lastMidi |-> gen.lastMidi,
                    note |-> gen.note, count |-> gen.count,
                    motifBank |-> gen.motifBank]
       ELSE LET noteDef == gen.pattern[gen.i]
                absoluteBar == call.startBar + gen.b
                duration == IF gen.stepCursor + noteDef.dur > stepsPerBar
                            THEN stepsPerBar - gen.stepCursor ELSE noteDef.dur
            IN  IF noteDef.type = "REST"
                THEN gen' = [gen EXCEPT !.i = gen.i + 1,
                                        !.stepCursor = gen.stepCursor + duration]
                ELSE \E targetMidi \in MarkovTargets(MarkovSectionAt(absoluteBar),
                            gen.lastMidi, ChordClasses(absoluteBar),
                            (gen.stepCursor * 4) % stepsPerBar = 0) :
                     gen' = [gen EXCEPT
                        !.i = gen.i + 1,
                        !.stepCursor = gen.stepCursor + duration,
                        !.lastMidi = targetMidi,
                        !.count = gen.count + 1,
                        !.note = [midi |-> targetMidi,
                                  time |-> absoluteBar * stepsPerBar + gen.stepCursor,
                                  duration |-> duration]]
    /\ UNCHANGED <<workerVars, clipboard, histVars, call, ret, prev, songVars>>

-----------------------------------------------------------------------------
(* Runs of the melody generators                                           *)

Complexities == {"LOW", "MEDIUM", "HIGH"}

\* the songs the generators run on: the new project, and a song in G whose
\* bars have sections and chords (set by the bar menus or the wizard)
NewSong ==
    [rootKey |-> 0, barStructure |-> <<"NONE", "NONE", "NONE", "NONE">>,
     barChords |-> <<0, 0, 0, 0>>]

SectionSong ==
    [rootKey |-> 7,
     barStructure |-> <<"INTRO", "VERSE", "VERSE", "CHORUS", "CHORUS", "OUTRO">>,
     barChords |-> <<0, 0, 4, 5, 3, 0>>]

\* scale and vocal range of the song with sections: the selects' values,
\* and the scale name a project file can carry (State.loadProject)
MelodySettings ==
    { <<"Major", "NONE">>, <<"Major", "SOPRANO">>, <<"Major", "BASS">>,
      <<"PentatonicMajor", "NONE">>, <<"Phrygian", "NONE">> }

GenerateMelodyCalls ==
    {c \in [op : {"generateMelody"}, startBar : 0..MaxStartBar,
            length : 0..MaxLength, complexity : Complexities, rnd : 0..MaxDraw] :
        c.rnd < Len(motifs[c.complexity])}

GenerateMelodyMarkovCalls ==
    [op : {"generateMelodyMarkov"}, startBar : {0, MaxStartBar},
     numBars : 1..MaxMarkovBars, complexity : Complexities]

\* pickSmoothNote by itself: in the TENOR range, in a range that holds
\* no note of C Major (61..61) and in one that holds notes of the scale
\* but none of the chord G-B-D (64..65)
PickSmoothNoteCalls ==
    [op : {"pickSmoothNote"}, lastMidi : {-1, 60, 66}, rootKey : {0},
     scaleName : {"Major"}, chordDef : {chordDegrees["Major"][5], Undefined},
     min : {48, 61, 64}, max : {61, 65, 72}, isStrongBeat : BOOLEAN,
     isPhraseStart : BOOLEAN]

SongIs(song) ==
    /\ rootKey = song.rootKey
    /\ barStructure = song.barStructure
    /\ barChords = song.barChords
    /\ totalBars = Len(song.barStructure)

InitMelody ==
    /\ ret = Pending
    /\ HistoryInit
    /\ WorkerInit
    /\ clipboard = Null
    /\ prev = Pending
    /\ gen = MelodyIdle
    /\ bpm = 120
    /\ stepsPerBar = 16
    /\ tracks = << [type |-> "SYNTH", preset |-> "Grand Piano"] >>
    /\ activeTrackIndex = 0
    /\ \/ /\ call \in GenerateMelodyCalls
          /\ \/ SongIs(NewSong) /\ scaleName = "Major" /\ vocalRangeType = "NONE"
             \/ /\ SongIs(SectionSong)
                /\ \E setting \in MelodySettings :
                        scaleName = setting[1] /\ vocalRangeType = setting[2]
       \/ /\ call \in GenerateMelodyMarkovCalls
          /\ SongIs(SectionSong)
          /\ scaleName = "Major" /\ vocalRangeType \in {"NONE", "BASS"}
       \/ /\ call \in PickSmoothNoteCalls
          /\ SongIs(NewSong) /\ scaleName = "Major" /\ vocalRangeType = "NONE"

NextMelody ==
    \/ GenerateMelodyBegin
    \/ GenerateMelodyBar
    \/ GenerateMelodyNote
    \/ GenerateMelodyMarkovBegin
    \/ GenerateMelodyMarkovBar
    \/ GenerateMelodyMarkovNote
    \/ CallPickSmoothNote

SpecMelody == InitMelody /\ [][NextMelody]_vars

-----------------------------------------------------------------------------
(* The drum track of the wizard (generateDrumsForWholeSong, part_002       *)
(* 1140-1173), run on the structure the wizard has just set.  gen.out is   *)
(* the call of getDrumPattern made last: its bar, step, whether the bar is *)
(* a transition bar, and the notes returned.                               *)

\* State.addNoteToTrack (part_000 374-389) for a note of one step
addNoteToTrack(notes, midi, time) ==
    Append(SelectSeq(notes, LAMBDA n : n.midi # midi \/ n.time # time),
           [midi |-> midi, time |-> time, duration |-> 1])

RECURSIVE addNotesToTrack(_, _, _)
addNotesToTrack(notes, midis, time) ==
    IF midis = <<>> THEN notes
    ELSE addNotesToTrack(addNoteToTrack(notes, Head(midis), time), Tail(midis), time)

\* the set-up of lines 1140-1144
GenerateDrumsBegin ==
    /\ call.op = "generateDrumsForWholeSong" /\ ret = Pending /\ gen.pc = "idle"
    /\ gen' = [pc |-> "drums", bar |-> 0, s |-> 0, out |-> NoNote]
    /\ UNCHANGED <<workerVars, clipboard, histVars, call, ret, prev, songVars>>

\* one turn of the inner loop of lines 1146-1171, and the return
GenerateDrumsStep ==
    /\ call.op = "generateDrumsForWholeSong" /\ gen.pc = "drums"
    /\ IF gen.bar >= totalBars
       THEN /\ ret' = Return(Undefined)
            /\ gen' = [gen EXCEPT !.pc = "done"]
            /\ UNCHANGED tracks
       ELSE LET drumGenre == call.genre
                currentSection == barStructure[gen.bar + 1]
                nextSection == IF gen.bar < totalBars - 1
                               THEN barStructure[gen.bar + 2] ELSE "OUTRO"
                isTransition == currentSection # nextSection
                                    \/ gen.bar = totalBars - 1
                notes == getDrumPattern(drumGenre, currentSection, nextSection,
                                        gen.s, stepsPerBar, isTransition)
                last == gen.s = stepsPerBar - 1
            IN  IF notes.kind = "throw"
                THEN /\ ret' = Throw
                     /\ gen' = [gen EXCEPT !.pc = "done"]
                     /\ UNCHANGED tracks
                ELSE /\ tracks' = [tracks EXCEPT ![call.trackIdx + 1].notes =
                            addNotesToTrack(@, notes.value,
                                            gen.bar * stepsPerBar + gen.s)]
                     /\ gen' = [pc |-> "drums",
                                bar |-> IF last THEN gen.bar + 1 ELSE gen.bar,
                                s |-> IF last THEN 0 ELSE gen.s + 1,
                                out |-> [bar |-> gen.bar, s |-> gen.s,
                                         isTransition |-> isTransition,
                                         notes |-> notes.value]]
                     /\ UNCHANGED ret
    /\ UNCHANGED <<workerVars, clipboard, histVars, call, prev, bpm, rootKey, scaleName, vocalRangeType,
                   stepsPerBar, totalBars, barChords, barStructure,
                   activeTrackIndex>>

\* the wizard's calls (part_002 604): the drum track is the first track,
\* the genre the one of the genre select, the structure the one of a
\* template of that genre
GenerateDrumsCalls ==
    {c \in [op : {"generateDrumsForWholeSong"}, trackIdx : {0},
            templateKey : DOMAIN songTemplates, genre : DOMAIN progressionStyles] :
        songTemplates[c.templateKey].genre = c.genre}

InitDrums ==
    /\ call \in GenerateDrumsCalls
    /\ ret = Pending
    /\ prev = Pending
    /\ gen = MelodyIdle
    /\ HistoryInit
    /\ WorkerInit
    /\ clipboard = Null
    /\ bpm = songTemplates[call.templateKey].bpm
    /\ rootKey = 0 /\ scaleName = "Major" /\ vocalRangeType = "NONE"
    /\ stepsPerBar = 16
    /\ barStructure = generateSongStructure(call.templateKey).value
    /\ totalBars = Len(barStructure)
    /\ barChords = AssignChords(barStructure,
                                getStyleByVibe(call.genre, 0).value)
    /\ tracks = << [type |-> "DRUMS", preset |-> "Standard", notes |-> <<>>] >>
    /\ activeTrackIndex = 0

NextDrums ==
    \/ GenerateDrumsBegin
    \/ GenerateDrumsStep

SpecDrums == InitDrums /\ [][NextDrums]_vars

-----------------------------------------------------------------------------
(* The analytics service worker (README.md 331-419).  An event is its      *)
(* number; a payload holds one event.  Each async function runs from one    *)
(* await to the next in one step.  A fetch ends in one of three ways: the   *)
(* server answers with an ok status, it answers with another status, or    *)
(* the request fails and the promise is rejected.                          *)

FetchOutcomes == {"ok", "httpError", "networkError"}

pageVars == <<call, ret, prev, songVars, gen, histVars>>

\* a listener calls trackEvent (lines 425-449); the call waits in
\* getIdentity (line 332)
TrackEvent(e) ==
    /\ track[e].pc = "idle"
    /\ track' = [track EXCEPT ![e] = [pc |-> "identity"]]
    /\ UNCHANGED <<pageVars, offlineQueue, flush, accepted>>

\* lines 333-353: on line sendData is called and waits for its fetch, off
\* line saveOffline is called and waits for storage.get
TrackDispatch(e) ==
    /\ track[e].pc = "identity"
    /\ \E onLine \in BOOLEAN :
        track' = [track EXCEPT ![e] =
                    [pc |-> IF onLine THEN "fetch" ELSE "saveGet"]]
    /\ UNCHANGED <<pageVars, offlineQueue, flush, accepted>>

\* flushOfflineQueue() is called: a call that has not run yet starts and
\* waits for storage.get (line 396); beyond MaxFlushes calls none starts
StartFlush ==
    IF \E f \in DOMAIN flush : flush[f].pc = "idle"
    THEN LET f == CHOOSE g \in DOMAIN flush :
                    flush[g].pc = "idle" /\ \A h \in 1..(g - 1) : flush[h].pc # "idle"
         IN  flush' = [flush EXCEPT ![f] = [pc |-> "get"]]
    ELSE UNCHANGED flush

\* sendData after its fetch (lines 367-378) with the catch of trackEvent
\* (lines 348-351)
SendData(e) ==
    /\ track[e].pc = "fetch"
    /\ \E outcome \in FetchOutcomes :
        IF outcome = "ok"
        THEN /\ accepted' = accepted \cup {e}
             /\ track' = [track EXCEPT ![e] = [pc |-> "done"]]
             /\ StartFlush
        ELSE /\ track' = [track EXCEPT ![e] = [pc |-> "saveGet"]]
             /\ UNCHANGED <<accepted, flush>>
    /\ UNCHANGED <<pageVars, offlineQueue>>

\* saveOffline after storage.get (lines 385-387): the queue read, with the
\* payload pushed, waits to be written
SaveOfflineGet(e) ==
    /\ track[e].pc = "saveGet"
    /\ track' = [track EXCEPT ![e] =
                    [pc |-> "saveSet", offlineQueue |-> Append(offlineQueue, e)]]
    /\ UNCHANGED <<pageVars, offlineQueue, flush, accepted>>

\* storage.set of saveOffline (line 387)
SaveOfflineSet(e) ==
    /\ track[e].pc = "saveSet"
    /\ offlineQueue' = track[e].offlineQueue
    /\ track' = [track EXCEPT ![e] = [pc |-> "done"]]
    /\ UNCHANGED <<pageVars, flush, accepted>>

\* the 'online' listener or the start-up timer (lines 435, 457-459)
OnlineEvent ==
    /\ \E f \in DOMAIN flush : flush[f].pc = "idle"
    /\ StartFlush
    /\ UNCHANGED <<pageVars, offlineQueue, track, accepted>>

\* flushOfflineQueue after storage.get (lines 396-404): the first fetch is
\* sent
FlushGet(f) ==
    /\ flush[f].pc = "get"
    /\ flush' = [flush EXCEPT ![f] =
                    IF offlineQueue = <<>> THEN [pc |-> "done"]
                    ELSE [pc |-> "fetch", offlineQueue |-> offlineQueue,
                          i |-> 1, newQueue |-> <<>>]]
    /\ UNCHANGED <<pageVars, offlineQueue, track, accepted>>

\* one fetch of the loop (lines 404-415): the item is kept when the promise
\* is rejected, and only then; after the last item storage.set is called
FlushFetch(f) ==
    /\ flush[f].pc = "fetch"
    /\ \E outcome \in FetchOutcomes :
        LET item == flush[f].offlineQueue[flush[f].i]
            last == flush[f].i = Len(flush[f].offlineQueue)
        IN  /\ accepted' = IF outcome = "ok" THEN accepted \cup {item}
                           ELSE accepted
            /\ flush' = [flush EXCEPT ![f] =
                    [pc |-> IF last THEN "set" ELSE "fetch",
                     offlineQueue |-> flush[f].offlineQueue,
                     i |-> flush[f].i + 1,
                     newQueue |-> IF outcome = "networkError"
                                  THEN Append(flush[f].newQueue, item)
                                  ELSE flush[f].newQueue]]
    /\ UNCHANGED <<pageVars, offlineQueue, track>>

\* storage.set of flushOfflineQueue (line 418)
FlushSet(f) ==
    /\ flush[f].pc = "set"
    /\ offlineQueue' = flush[f].newQueue
    /\ flush' = [flush EXCEPT ![f] = [pc |-> "done"]]
    /\ UNCHANGED <<pageVars, track, accepted>>

InitWorker ==
    /\ call = [op |-> "serviceWorker"]
    /\ ret = Pending
    /\ prev = Pending
    /\ gen = MelodyIdle
    /\ SongInit
    /\ HistoryInit
    /\ WorkerInit
    /\ clipboard = Null

NextWorker ==
    \/ \E e \in 1..MaxEvents : TrackEvent(e)
    \/ \E e \in 1..MaxEvents : TrackDispatch(e)
    \/ \E e \in 1..MaxEvents : SendData(e)
    \/ \E e \in 1..MaxEvents : SaveOfflineGet(e)
    \/ \E e \in 1..MaxEvents : SaveOfflineSet(e)
    \/ OnlineEvent
    \/ \E f \in 1..MaxFlushes : FlushGet(f)
    \/ \E f \in 1..MaxFlushes : FlushFetch(f)
    \/ \E f \in 1..MaxFlushes : FlushSet(f)

SpecWorker == InitWorker /\ [][NextWorker]_vars

-----------------------------------------------------------------------------
(* Undo / redo (History.js) with the handlers that edit the song.  A track *)
(* is [type, preset, notes] here, a note [midi, time, duration].           *)

limit == 50

\* State.getData (part_000 323-334)
getData ==
    [tracks |-> tracks, bpm |-> bpm, stepsPerBar |-> stepsPerBar,
     totalBars |-> totalBars, barChords |-> barChords,
     barStructure |-> barStructure, rootKey |-> rootKey, scaleName |-> scaleName]

\* State.loadProject (part_000 340-364), which restoreData calls
loadProject(data) ==
    /\ bpm' = data.bpm
    /\ rootKey' = data.rootKey
    /\ scaleName' = data.scaleName
    /\ stepsPerBar' = data.stepsPerBar
    /\ totalBars' = data.totalBars
    /\ barChords' = data.barChords
    /\ barStructure' = data.barStructure
    /\ tracks' = data.tracks
    /\ activeTrackIndex' = 0
    /\ UNCHANGED vocalRangeType

\* the song fields an edit can change, as they are now
Song ==
    [tracks |-> tracks, bpm |-> bpm, stepsPerBar |-> stepsPerBar,
     totalBars |-> totalBars, barChords |-> barChords,
     barStructure |-> barStructure, rootKey |-> rootKey, scaleName |-> scaleName,
     vocalRangeType |-> vocalRangeType]

Front(seq) == SubSeq(seq, 1, Len(seq) - 1)
Last(seq) == seq[Len(seq)]

\* push without the limit of lines 55-57
Push_NoLimit(stack, snapshot) == Append(stack, snapshot)

\* push with the history limit (History.js 52-57)
Push(stack, snapshot) ==
    IF Len(stack) + 1 > limit THEN Tail(Append(stack, snapshot))
    ELSE Append(stack, snapshot)

\* History.saveState (47-63)
saveState ==
    /\ undoStack' = Push(undoStack, getData)
    /\ redoStack' = <<>>
    /\ prev' = [undo |-> Push(prev.undo, Song), redo |-> <<>>]

\* the handlers that save are offered while the undo stack is short
CanSave == Len(undoStack) < MaxUndo

\* the note findNoteAt finds lies at (midi, time)
NoteAt(n, midi, time) ==
    n.midi = midi /\ time >= n.time /\ time < n.time + n.duration

\* State.addNote (part_000 170-180), duration 1
addNote(notes, midi, time) ==
    IF \E k \in DOMAIN notes : NoteAt(notes[k], midi, time)
    THEN LET k == CHOOSE i \in DOMAIN notes :
                    /\ NoteAt(notes[i], midi, time)
                    /\ \A j \in 1..(i - 1) : ~NoteAt(notes[j], midi, time)
         IN  [notes EXCEPT ![k].duration = 1]
    ELSE Append(notes, [midi |-> midi, time |-> time, duration |-> 1])

\* where Array.prototype.splice starts: a negative start counts from the
\* end, and the start is kept within 0..length
SpliceStart(seq, start) ==
    IF start < 0
    THEN (IF Len(seq) + start < 0 THEN 0 ELSE Len(seq) + start)
    ELSE IF start > Len(seq) THEN Len(seq) ELSE start

\* seq.splice(i, 1) and seq.splice(i, 0, x)
RemoveAt(seq, i) ==
    LET at == SpliceStart(seq, i)
    IN  SubSeq(seq, 1, at) \o SubSeq(seq, at + 2, Len(seq))
InsertAt(seq, i, x) ==
    LET at == SpliceStart(seq, i)
    IN  SubSeq(seq, 1, at) \o <<x>> \o SubSeq(seq, at + 1, Len(seq))

\* the notes of a track after the bar that starts at step start is cut out
CutBar(notes, start) ==
    LET kept == SelectSeq(notes,
                    LAMBDA n : ~(n.time >= start /\ n.time < start + stepsPerBar))
    IN  [k \in DOMAIN kept |->
            IF kept[k].time >= start + stepsPerBar
            THEN [kept[k] EXCEPT !.time = @ - stepsPerBar] ELSE kept[k]]

\* State.deleteBar (part_000 275-288)
deleteBar(atIndex) ==
    IF totalBars <= 1
    THEN UNCHANGED <<tracks, barChords, barStructure, totalBars>>
    ELSE /\ tracks' = [t \in DOMAIN tracks |->
                [tracks[t] EXCEPT !.notes = CutBar(@, atIndex * stepsPerBar)]]
         /\ barChords' = RemoveAt(barChords, atIndex)
         /\ barStructure' = RemoveAt(barStructure, atIndex)
         /\ totalBars' = totalBars - 1

\* the notes of a track after a bar is put in at step insertTime
OpenBar(notes, insertTime) ==
    [k \in DOMAIN notes |->
        IF notes[k].time >= insertTime
        THEN [notes[k] EXCEPT !.time = @ + stepsPerBar] ELSE notes[k]]

\* State.insertBar(atIndex) (part_000 253-269), no template index
insertBar(atIndex) ==
    LET at == IF atIndex > totalBars THEN totalBars ELSE atIndex
        templateStruct == IF at > 0 THEN barStructure[at] ELSE "NONE"
    IN  /\ tracks' = [t \in DOMAIN tracks |->
                [tracks[t] EXCEPT !.notes = OpenBar(@, at * stepsPerBar)]]
        /\ barChords' = InsertAt(barChords, at, 0)
        /\ barStructure' = InsertAt(barStructure, at, templateStruct)
        /\ totalBars' = totalBars + 1

\* arr[i] of a 0-based array: undefined outside it
ItemAt(seq, i) == IF i \in 0..(Len(seq) - 1) THEN seq[i + 1] ELSE Undefined

\* arr[i] = x: beyond the end the array grows, the items between are holes
\* (read as undefined); a negative i names a property, no item of the array
SetAt(seq, i, x) ==
    IF i < 0 THEN seq
    ELSE IF i < Len(seq) THEN [seq EXCEPT ![i + 1] = x]
    ELSE seq \o [k \in 1..(i - Len(seq)) |-> Undefined] \o <<x>>

\* the notes of the current track that start in the bar at step start
NotesOfBar(notes, start) ==
    SelectSeq(notes, LAMBDA n : n.time >= start /\ n.time < start + stepsPerBar)

\* State.copyBar (part_000 293-302)
copyBar(barIndex) ==
    LET start == barIndex * stepsPerBar
        notes == NotesOfBar(tracks[activeTrackIndex + 1].notes, start)
    IN  clipboard' =
            [notes |-> [k \in DOMAIN notes |->
                          [midi |-> notes[k].midi, time |-> notes[k].time,
                           duration |-> notes[k].duration,
                           relativeTime |-> notes[k].time - start]],
             chord |-> ItemAt(barChords, barIndex),
             structure |-> ItemAt(barStructure, barIndex)]

\* State.pasteBar (part_000 308-317)
pasteBar(targetIndex) ==
    IF clipboard = Null
    THEN UNCHANGED <<tracks, barChords, barStructure>>
    ELSE LET start == targetIndex * stepsPerBar
             kept == SelectSeq(tracks[activeTrackIndex + 1].notes,
                        LAMBDA n : n.time < start \/ n.time >= start + stepsPerBar)
             pasted == [k \in DOMAIN clipboard.notes |->
                          [clipboard.notes[k] EXCEPT
                              !.time = start + clipboard.notes[k].relativeTime]]
         IN  /\ tracks' = [tracks EXCEPT ![activeTrackIndex + 1].notes = kept \o pasted]
             /\ barChords' = SetAt(barChords, targetIndex, clipboard.chord)
             /\ barStructure' = SetAt(barStructure, targetIndex, clipboard.structure)

\* clearBtn click (part_002 634-638)
ClearBtn ==
    /\ CanSave
    /\ saveState
    /\ tracks' = [tracks EXCEPT ![activeTrackIndex + 1].notes = <<>>]
    /\ call' = [op |-> "clearBtn"]
    /\ UNCHANGED <<workerVars, clipboard, ret, gen, bpm, rootKey, scaleName, vocalRangeType, stepsPerBar,
                   totalBars, barChords, barStructure, activeTrackIndex>>

\* left click on the grid (auth-loader.js 1001-1005)
GridClick ==
    /\ CanSave
    /\ \E midi \in {60}, time \in {0, stepsPerBar} :
        /\ time < totalBars * stepsPerBar
        /\ saveState
        /\ tracks' = [tracks EXCEPT ![activeTrackIndex + 1].notes =
                            addNote(@, midi, time)]
        /\ call' = [op |-> "gridClick", midi |-> midi, time |-> time]
    /\ UNCHANGED <<workerVars, clipboard, ret, gen, bpm, rootKey, scaleName, vocalRangeType, stepsPerBar,
                   totalBars, barChords, barStructure, activeTrackIndex>>

\* the add-bar button (auth-loader.js 1039-1042)
AddBarBtn ==
    /\ CanSave /\ totalBars < MaxBars
    /\ saveState
    /\ insertBar(totalBars)
    /\ call' = [op |-> "addBar"]
    /\ UNCHANGED <<workerVars, clipboard, ret, gen, bpm, rootKey, scaleName, vocalRangeType, stepsPerBar,
                   activeTrackIndex>>

\* the remove-bar button (auth-loader.js 1043-1046)
RemoveBarBtn ==
    /\ CanSave
    /\ saveState
    /\ deleteBar(totalBars - 1)
    /\ call' = [op |-> "removeBar"]
    /\ UNCHANGED <<workerVars, clipboard, ret, gen, bpm, rootKey, scaleName, vocalRangeType, stepsPerBar,
                   activeTrackIndex>>

\* a chord picked in the chord menu of the first bar (auth-loader.js
\* 1310-1315)
ChordMenuClick ==
    /\ CanSave
    /\ \E index \in {0, 4} :
        /\ saveState
        /\ barChords' = [barChords EXCEPT ![1] = index]
        /\ call' = [op |-> "chordMenu", index |-> index]
    /\ UNCHANGED <<workerVars, clipboard, ret, gen, bpm, rootKey, scaleName, vocalRangeType, stepsPerBar,
                   totalBars, barStructure, tracks, activeTrackIndex>>

\* the scale select (part_002 459-463): no snapshot is taken
ScaleSelChange ==
    /\ \E value \in {"Major", "Minor"} :
        /\ scaleName' = value
        /\ call' = [op |-> "scaleSel", value |-> value]
    /\ UNCHANGED <<workerVars, clipboard, histVars, prev, ret, gen, bpm, rootKey, vocalRangeType,
                   stepsPerBar, totalBars, barChords, barStructure, tracks,
                   activeTrackIndex>>

\* the vocal range select (part_002 464-467): no snapshot is taken
VocalRangeSelChange ==
    /\ \E value \in {"NONE", "BASS"} :
        /\ vocalRangeType' = value
        /\ call' = [op |-> "vocalRangeSel", value |-> value]
    /\ UNCHANGED <<workerVars, clipboard, histVars, prev, ret, gen, bpm, rootKey, scaleName,
                   stepsPerBar, totalBars, barChords, barStructure, tracks,
                   activeTrackIndex>>

\* an item of the add-track menu (part_002 918-925) with State.addTrack
\* (part_000 149-160): no snapshot is taken
AddTrackItem ==
    /\ Len(tracks) < MaxTracks
    /\ \E type \in {"DRUMS"}, preset \in {"Standard"} :
        /\ tracks' = Append(tracks, [type |-> type, preset |-> preset,
                                     notes |-> <<>>])
        /\ activeTrackIndex' = Len(tracks)
        /\ call' = [op |-> "addTrack", type |-> type]
    /\ UNCHANGED <<workerVars, clipboard, histVars, prev, ret, gen, bpm, rootKey, scaleName,
                   vocalRangeType, stepsPerBar, totalBars, barChords,
                   barStructure>>

\* the inner loop of the generate-drums handler (part_002 1004-1019) for
\* one bar, from step s on
RECURSIVE DrumBarFrom(_, _, _, _)
DrumBarFrom(notes, genre, bar, s) ==
    IF s >= stepsPerBar THEN notes
    ELSE LET currentSection == barStructure[bar + 1]
             nextSection == IF bar < totalBars - 1 THEN barStructure[bar + 2]
                            ELSE "OUTRO"
             isTransition == currentSection # nextSection \/ bar = totalBars - 1
             drumMidis == getDrumPattern(genre, currentSection, nextSection,
                                s, stepsPerBar, isTransition).value
         IN  DrumBarFrom(addNotesToTrack(notes, drumMidis, bar * stepsPerBar + s),
                         genre, bar, s + 1)

\* the outer loop (part_002 991-1020) from a bar on; no bar holds a note
\* of a later bar's steps, so each bar's notes are built from none
RECURSIVE DrumsFrom(_, _)
DrumsFrom(genre, bar) ==
    IF bar >= totalBars THEN <<>>
    ELSE DrumBarFrom(<<>>, genre, bar, 0) \o DrumsFrom(genre, bar + 1)

\* doGenerateDrumsBtn click (part_002 978-1024); state.history is
\* undefined, so line 984 saves nothing
GenerateDrumsBtn ==
    /\ \E genre \in {"ROCK"} :
        /\ call' = [op |-> "generateDrumsBtn", genre |-> genre]
        /\ IF tracks[activeTrackIndex + 1].type # "DRUMS"
           THEN UNCHANGED tracks
           ELSE tracks' = [tracks EXCEPT ![activeTrackIndex + 1].notes =
                                DrumsFrom(genre, 0)]
    /\ UNCHANGED <<workerVars, clipboard, histVars, prev, ret, gen, bpm, rootKey, scaleName,
                   vocalRangeType, stepsPerBar, totalBars, barChords,
                   barStructure, activeTrackIndex>>

\* menuNew click, confirmed (part_002 659-670)
MenuNew ==
    /\ CanSave
    /\ saveState
    /\ tracks' = << [type |-> "SYNTH", preset |-> "Grand Piano", notes |-> <<>>] >>
    /\ activeTrackIndex' = 0
    /\ barChords' = <<0, 0, 0, 0>>
    /\ barStructure' = <<"NONE", "NONE", "NONE", "NONE">>
    /\ totalBars' = 4
    /\ call' = [op |-> "menuNew"]
    /\ UNCHANGED <<workerVars, clipboard, ret, gen, bpm, rootKey, scaleName, vocalRangeType, stepsPerBar>>

\* History.undo (68-84) from the menu or the keyboard (part_002 714-719)
MenuUndo ==
    /\ call' = [op |-> "undo"]
    /\ IF undoStack = <<>>
       THEN UNCHANGED <<histVars, prev, songVars>>
       ELSE /\ redoStack' = Append(redoStack, getData)
            /\ undoStack' = Front(undoStack)
            /\ loadProject(Last(undoStack))
            /\ prev' = [undo |-> Front(prev.undo), redo |-> Append(prev.redo, Song)]
    /\ UNCHANGED <<workerVars, clipboard, ret, gen>>

\* History.redo (89-105) from the menu or the keyboard (part_002 720-725)
MenuRedo ==
    /\ call' = [op |-> "redo"]
    /\ IF redoStack = <<>>
       THEN UNCHANGED <<histVars, prev, songVars>>
       ELSE /\ undoStack' = Append(undoStack, getData)
            /\ redoStack' = Front(redoStack)
            /\ loadProject(Last(redoStack))
            /\ prev' = [undo |-> Append(prev.undo, Song), redo |-> Front(prev.redo)]
    /\ UNCHANGED <<workerVars, clipboard, ret, gen>>

InitHistory ==
    /\ call = [op |-> "load"]
    /\ ret = Pending
    /\ gen = MelodyIdle
    /\ HistoryInit
    /\ WorkerInit
    /\ clipboard = Null
    /\ prev = [undo |-> <<>>, redo |-> <<>>]
    /\ bpm = 120 /\ rootKey = 0 /\ scaleName = "Major" /\ vocalRangeType = "NONE"
    /\ stepsPerBar = 16 /\ totalBars = 4
    /\ tracks = << [type |-> "SYNTH", preset |-> "Grand Piano", notes |-> <<>>] >>
    /\ activeTrackIndex = 0
    /\ barChords = <<0, 0, 0, 0>>
    /\ barStructure = <<"NONE", "NONE", "NONE", "NONE">>

NextHistory ==
    \/ ClearBtn
    \/ GridClick
    \/ AddBarBtn
    \/ RemoveBarBtn
    \/ ChordMenuClick
    \/ ScaleSelChange
    \/ VocalRangeSelChange
    \/ MenuUndo
    \/ MenuRedo

SpecHistory == InitHistory /\ [][NextHistory]_vars

\* the click of GridClick on the first step, with the undo stack free to
\* fill up to the limit (auth-loader.js 1001-1005)
GridClickFirstStep ==
    /\ saveState
    /\ tracks' = [tracks EXCEPT ![activeTrackIndex + 1].notes = addNote(@, 60, 0)]
    /\ call' = [op |-> "gridClick", midi |-> 60, time |-> 0]
    /\ UNCHANGED <<workerVars, clipboard, ret, gen, bpm, rootKey, scaleName, vocalRangeType,
                   stepsPerBar, totalBars, barChords, barStructure,
                   activeTrackIndex>>

NextLimit ==
    \/ GridClickFirstStep
    \/ MenuUndo
    \/ MenuRedo

SpecLimit == InitHistory /\ [][NextLimit]_vars

\* the handlers that write over or delete parts of the song, with the
\* add-track menu, undo and redo
NextEdits ==
    \/ ClearBtn
    \/ RemoveBarBtn
    \/ MenuNew
    \/ AddTrackItem
    \/ GenerateDrumsBtn
    \/ MenuUndo
    \/ MenuRedo

SpecEdits == InitHistory /\ [][NextEdits]_vars

\* ---- the bar operations of State, called with any bar index -------------

\* a negative index, the first bar, the last bar and the index after it
BarIndexes == {0 - 1, 0, totalBars - 1, totalBars}

\* the runs end after MaxCalls calls; call.nth counts them
MoreCalls == call.nth < MaxCalls

InsertBarCall ==
    /\ MoreCalls
    /\ \E atIndex \in BarIndexes :
        /\ insertBar(atIndex)
        /\ call' = [op |-> "insertBar", atIndex |-> atIndex, nth |-> call.nth + 1]
    /\ UNCHANGED <<workerVars, clipboard, histVars, ret, prev, gen, bpm, rootKey, scaleName,
                   vocalRangeType, stepsPerBar, activeTrackIndex>>

DeleteBarCall ==
    /\ MoreCalls
    /\ \E atIndex \in BarIndexes :
        /\ deleteBar(atIndex)
        /\ call' = [op |-> "deleteBar", atIndex |-> atIndex, nth |-> call.nth + 1]
    /\ UNCHANGED <<workerVars, clipboard, histVars, ret, prev, gen, bpm, rootKey, scaleName,
                   vocalRangeType, stepsPerBar, activeTrackIndex>>

CopyBarCall ==
    /\ MoreCalls
    /\ \E barIndex \in BarIndexes :
        /\ copyBar(barIndex)
        /\ call' = [op |-> "copyBar", barIndex |-> barIndex, nth |-> call.nth + 1]
    /\ UNCHANGED <<workerVars, histVars, ret, prev, gen, bpm, rootKey, scaleName,
                   vocalRangeType, stepsPerBar, totalBars, barChords, barStructure,
                   tracks, activeTrackIndex>>

PasteBarCall ==
    /\ MoreCalls
    /\ \E targetIndex \in BarIndexes :
        /\ pasteBar(targetIndex)
        /\ call' = [op |-> "pasteBar", targetIndex |-> targetIndex, nth |-> call.nth + 1]
    /\ UNCHANGED <<workerVars, clipboard, histVars, ret, prev, gen, bpm, rootKey, scaleName,
                   vocalRangeType, stepsPerBar, totalBars, activeTrackIndex>>

\* the song of the constructor with one note clicked into its first bar
InitBars ==
    /\ call = [op |-> "load", nth |-> 0]
    /\ ret = Pending
    /\ gen = MelodyIdle
    /\ HistoryInit
    /\ WorkerInit
    /\ clipboard = Null
    /\ prev = [undo |-> <<>>, redo |-> <<>>]
    /\ bpm = 120 /\ rootKey = 0 /\ scaleName = "Major" /\ vocalRangeType = "NONE"
    /\ stepsPerBar = 16 /\ totalBars = 4
    /\ tracks = << [type |-> "SYNTH", preset |-> "Grand Piano",
                    notes |-> addNote(<<>>, 60, 0)] >>
    /\ activeTrackIndex = 0
    /\ barChords = <<0, 0, 0, 0>>
    /\ barStructure = <<"NONE", "NONE", "NONE", "NONE">>

NextBars ==
    \/ InsertBarCall
    \/ DeleteBarCall
    \/ CopyBarCall
    \/ PasteBarCall

SpecBars == InitBars /\ [][NextBars]_vars

-----------------------------------------------------------------------------
(* Claims about the theory functions (under SpecTheory)                    *)

Returned(op) == call.op = op /\ ret # Pending /\ ret.kind = "return"

\* C1: for every root 0..11 and every scale name of the table,
\* getScaleNotes(root, scale) is exactly the set of the Midi values m in
\* 0..127, both ends included, with (m - root) mod 12 one of the scale's
\* offsets.
C1_ScaleNotesExact ==
    (Returned("getScaleNotes") /\ call.scaleName \in DOMAIN scales) =>
        ret.value = {m \in 0..MidiMax :
                        ((m - call.rootKey) % 12) \in Range(scales[call.scaleName])}

\* the degree of the table that a call of getChordRootInScale names, if any
C2_HasDegree ==
    /\ call.scaleName \in DOMAIN chordDegrees
    /\ call.chordDegreeIndex + 1 \in DOMAIN chordDegrees[call.scaleName]

\* C2: getChordRootInScale returns a pitch class 0..11, equal to
\* (scaleRoot + intervals[0]) mod 12 of the chord degree, and 0 when the
\* scale has no degree table or the index has no entry in it.
C2_ChordRoot ==
    Returned("getChordRootInScale") =>
        /\ ret.value \in 0..11
        /\ IF C2_HasDegree
           THEN ret.value =
                  (call.scaleRoot +
                   chordDegrees[call.scaleName][call.chordDegreeIndex + 1].intervals[1]) % 12
           ELSE ret.value = 0

\* B roots the V chord of B major on F#: (11 + 7) mod 12 = 6
C2_Witness ==
    /\ Returned("getChordRootInScale")
    /\ call.scaleRoot = 11 /\ call.scaleName = "Major" /\ call.chordDegreeIndex = 4
    /\ ret.value = 6

\* the number of notes of the call whose pitch class the chord allows
C3_Matches ==
    Cardinality({k \in DOMAIN call.barNotes :
        \E j \in DOMAIN call.chordDefinition.intervals :
            (call.barNotes[k] - call.rootKey - call.chordDefinition.intervals[j]) % 12 = 0})

\* s is the integer nearest to 100 * m / n
C3_IsRoundedPercent(s, m, n) ==
    s \in 0..100 /\ 2 * s * n - 200 * m <= n /\ 200 * m - 2 * s * n <= n

\* C3 as claimed: an empty note list scores 100 for any chord argument, a
\* missing chord definition included; a non-empty list scores the rounded
\* percentage of the notes whose pitch class the chord allows.
C3_EmptyScores100 ==
    Returned("analyzeBarHarmony") =>
        IF Len(call.barNotes) = 0 THEN ret.value.score = 100
        ELSE call.chordDefinition # Undefined =>
                C3_IsRoundedPercent(ret.value.score, C3_Matches, Len(call.barNotes))

\* C3 amended: with a chord definition, an empty note list scores 100 and a
\* non-empty one the rounded percentage, in 0..100, of the notes whose pitch
\* class the chord allows; with a missing chord definition the score is 0,
\* whatever the note list.
C3_Amended ==
    Returned("analyzeBarHarmony") =>
        IF call.chordDefinition = Undefined THEN ret.value.score = 0
        ELSE IF Len(call.barNotes) = 0 THEN ret.value.score = 100
        ELSE C3_IsRoundedPercent(ret.value.score, C3_Matches, Len(call.barNotes))

C3_Witness ==
    /\ Returned("analyzeBarHarmony")
    /\ call.barNotes = <<>> /\ call.chordDefinition # Undefined
    /\ ret.value.score = 100

\* the six roles and the intervals from the chord root that each covers
C4_Roles ==
    [ ROOT |-> {0}, THIRD |-> {3, 4}, FIFTH |-> {7}, SEVENTH |-> {10, 11},
      EXTENSION |-> {2, 5, 9}, NON_CHORD |-> {1, 6, 8} ]

\* the buckets cover the 12 intervals and no two overlap
C4_Partition ==
    \A i \in 0..11 : Cardinality({r \in DOMAIN C4_Roles : i \in C4_Roles[r]}) = 1

\* C4 as claimed: for every call, getNoteRole returns the one role of the
\* six whose bucket holds (midi - chordRootPitchClass) mod 12.
C4_SixRoles ==
    Returned("getNoteRole") =>
        /\ C4_Partition
        /\ ret.value \in DOMAIN C4_Roles
        /\ ((call.midi - call.currentBarRootIdx) % 12) \in C4_Roles[ret.value]

\* C4 amended: for every call that gives a chord definition, getNoteRole
\* returns the one role of the six whose bucket holds
\* (midi - chordRootPitchClass) mod 12; without a chord definition it returns
\* 'UNKNOWN' for every interval.
C4_Amended ==
    Returned("getNoteRole") =>
        IF call.chordDef = Undefined THEN ret.value = "UNKNOWN"
        ELSE /\ C4_Partition
             /\ ret.value \in DOMAIN C4_Roles
             /\ ((call.midi - call.currentBarRootIdx) % 12) \in C4_Roles[ret.value]

\* C4 of the chord on D (2): the interval of C#4 (61) is 11, a seventh
C4_Witness ==
    /\ Returned("getNoteRole")
    /\ call.chordDef # Undefined /\ call.midi = 61 /\ call.currentBarRootIdx = 2
    /\ ret.value = "SEVENTH"

-----------------------------------------------------------------------------
(* Claims about the structure wizard and the lookups (under SpecStructure) *)

Completed(op) == call.op = op /\ ret # Pending

RECURSIVE SumLen(_)
SumLen(parts) == IF parts = <<>> THEN 0 ELSE Head(parts).len + SumLen(Tail(parts))

\* the style the wizard's vibe select names
WizardStyle == progressionStyles[call.genreKey][call.vibeIndex + 1]

\* C5: for every song template and every progression style of a genre, the
\* wizard's chord assignment leaves a barChords array with one element per
\* bar of the template, every element a valid index into the chord-degree
\* table of the style's preferredScale.
C5_ChordsValid ==
    Completed("applyStructure") =>
        /\ Len(barChords) = SumLen(songTemplates[call.templateKey].structure)
        /\ \A k \in DOMAIN barChords :
            /\ WizardStyle.preferredScale \in DOMAIN chordDegrees
            /\ DegreeAt(WizardStyle.preferredScale, barChords[k]) # Undefined

\* C6: generateSongStructure is the run-length decoding of the template (of
\* POP_RADIO for a key that names none): it returns one entry per bar, as
\* many as the parts' len values sum to; part j fills the len positions
\* that follow the sum of the earlier parts' len with its type; and the
\* same call made again returns an equal array.
C6_RunLengthDecoding ==
    Completed("generateSongStructure") =>
        LET parts == GetOr(songTemplates, call.templateKey,
                           songTemplates.POP_RADIO).structure
            Start(j) == SumLen(SubSeq(parts, 1, j - 1))
        IN  /\ ret.kind = "return"
            /\ Len(ret.value) = SumLen(parts)
            /\ \A j \in DOMAIN parts : \A i \in 1..parts[j].len :
                    ret.value[Start(j) + i] = parts[j].type
            /\ prev # Pending => ret = prev

C6_Witness ==
    /\ Completed("generateSongStructure") /\ prev # Pending
    /\ call.templateKey = "LOFI_BEAT"
    /\ Len(ret.value) = 48
    /\ ret.value[20] = "VERSE" /\ ret.value[21] = "BRIDGE"
    /\ ret.value[24] = "BRIDGE" /\ ret.value[25] = "VERSE"

\* C7: each genre-keyed lookup, called with a genre key that its table has
\* no entry for, completes exactly as the same call with genre 'POP' does;
\* and no lookup throws, whatever the genre and section keys.
C7_UnknownGenreAsPop ==
    /\ Completed("getChordProgression") /\ call.genre \notin DOMAIN progressionStyles
        => ret = getChordProgression("POP", call.section, call.rnd)
    /\ Completed("getStyleByVibe") /\ call.genre \notin DOMAIN progressionStyles
        => ret = getStyleByVibe("POP", call.vibeIndex)
    /\ Completed("getInstrumentsForGenre") /\ call.genre \notin DOMAIN genreInstruments
        => ret = getInstrumentsForGenre("POP")
    /\ Completed("getArpPattern") /\ call.genre \notin DOMAIN arpStyles
        => ret = getArpPattern("POP", call.section)
    /\ Completed("getDrumPattern") /\ call.genre \notin DOMAIN patterns
        => ret = getDrumPattern("POP", call.currentSection, call.nextSection,
                                call.stepIndex, call.stepsPerBar, call.isTransition)
    /\ ret # Pending /\ call.op \in {"getChordProgression", "getStyleByVibe",
                                     "getInstrumentsForGenre", "getArpPattern",
                                     "getDrumPattern"}
        => ret.kind = "return"

\* the chain of C9: the section's list, else Chorus, else Verse, else the
\* fixed default
ChainList(style, section) ==
    IF section \in DOMAIN style.sections THEN style.sections[section]
    ELSE IF "CHORUS" \in DOMAIN style.sections THEN style.sections.CHORUS
    ELSE IF "VERSE" \in DOMAIN style.sections THEN style.sections.VERSE
    ELSE <<0, 5, 3, 4>>

\* C9: where a style defines no chord list for a section, the list used is
\* the style's Chorus list, else its Verse list, else [0,5,3,4], and that
\* both in getChordProgression and in the wizard's chord assignment (there
\* for the section that Solo/Drop resolve to).
C9_FallbackChain ==
    /\ Completed("getChordProgression") /\ call.genre \notin ObjectPrototypeKeys
            /\ call.section \notin ObjectPrototypeKeys
        => ret = Return(ChainList(
                    GetOr(progressionStyles, call.genre,
                          progressionStyles.POP)[call.rnd + 1],
                    call.section))
    /\ Completed("applyStructure")
        => \A k \in DOMAIN barChords :
            LET target == IF barStructure[k] \in {"SOLO", "DROP"} THEN "CHORUS"
                          ELSE barStructure[k]
                list == ChainList(WizardStyle, target)
            IN  barChords[k] = list[((k - 1) % Len(list)) + 1]

\* C17: after the wizard's chord assignment the chord of bar i is
\* list[i mod list.length], i the index of the bar in the whole song, list
\* the style's chord list of the bar's section, a Solo or Drop bar taking
\* the Chorus list (as does a section the style has no list for).
C17_AbsoluteBarIndex ==
    Completed("applyStructure") =>
        /\ Len(barChords) = Len(barStructure)
        /\ \A i \in 0..(Len(barChords) - 1) :
            LET section == barStructure[i + 1]
                sections == WizardStyle.sections
                list == IF section \in {"SOLO", "DROP"} THEN sections.CHORUS
                        ELSE IF section \in DOMAIN sections THEN sections[section]
                        ELSE sections.CHORUS
            IN  barChords[i + 1] = list[(i % Len(list)) + 1]

\* a section starts on a bar whose index is no multiple of its list's
\* length, and the bar has the chord of that phase, not the list's first
C17_Witness ==
    /\ Completed("applyStructure")
    /\ \E i \in 1..(Len(barChords) - 1) :
        LET section == barStructure[i + 1]
        IN  /\ barStructure[i] # section
            /\ section \in DOMAIN WizardStyle.sections
            /\ i % Len(WizardStyle.sections[section]) # 0
            /\ barChords[i + 1] =
                    WizardStyle.sections[section][(i % Len(WizardStyle.sections[section])) + 1]
            /\ barChords[i + 1] # WizardStyle.sections[section][1]

-----------------------------------------------------------------------------
(* Claims about the melody generators                                      *)

\* C8: generateMelody and pickSmoothNote never throw: with a scale name
\* that has no chord-degree table, or a bar whose chord index has no entry
\* in the scale's table, the call still completes by returning.
C8_MelodyTotal ==
    (call.op \in {"generateMelody", "pickSmoothNote"} /\ ret # Pending)
        => ret.kind = "return"

\* C10: every note either generator has pushed has its pitch inside the
\* selected vocal range [min, max]; and pickSmoothNote returns null exactly
\* when its range [min, max] holds no note of the scale, a pitch of that
\* range otherwise.
C10_WithinVocalRange ==
    /\ (call.op \in {"generateMelody", "generateMelodyMarkov"}
            /\ "note" \in DOMAIN gen /\ gen.note # NoNote)
        => gen.note.midi \in VocalRange.min..VocalRange.max
    /\ (call.op = "pickSmoothNote" /\ ret # Pending /\ ret.kind = "return")
        => IF {m \in call.min..call.max :
                    m \in scaleNoteSets[call.rootKey][call.scaleName]} = {}
           THEN ret = ReturnNull
           ELSE ret # ReturnNull /\ ret.value \in call.min..call.max

\* the in-range scale tones and chord tones of a pickSmoothNote call
C11_ScaleTones ==
    {m \in call.min..call.max : m \in scaleNoteSets[call.rootKey][call.scaleName]}

C11_ChordTones ==
    {m \in C11_ScaleTones :
        \E k \in DOMAIN call.chordDef.intervals :
            (m - call.rootKey - call.chordDef.intervals[k]) % 12 = 0}

C11_IsMiddle(m, T) ==
    m \in T /\ Cardinality({y \in T : y < m}) = Cardinality(T) \div 2

\* C11: pickSmoothNote called for a phrase start, or with no previous note
\* (lastMidi = -1), with a chord and at least one scale tone in range,
\* returns the element of index floor(n/2) of the ascending in-range chord
\* tones, or of the ascending in-range scale tones when no chord tone is in
\* range; it does not throw, and that element is its only possible result.
C11_PhraseStartMiddle ==
    (call.op = "pickSmoothNote" /\ ret # Pending /\ call.chordDef # Undefined
        /\ (call.isPhraseStart \/ call.lastMidi = -1) /\ C11_ScaleTones # {})
    => /\ ret.kind = "return" /\ ret # ReturnNull
       /\ C11_IsMiddle(ret.value, IF C11_ChordTones # {} THEN C11_ChordTones
                                  ELSE C11_ScaleTones)

\* a phrase start with scale tones E4, F4 in range and no tone of the chord:
\* the middle scale tone, F4, is returned
C11_Witness ==
    /\ call.op = "pickSmoothNote" /\ call.isPhraseStart /\ call.lastMidi = 60
    /\ call.chordDef # Undefined
    /\ C11_ScaleTones = {64, 65} /\ C11_ChordTones = {}
    /\ ret = Return(65)

\* a generator is placing the notes of bar gen.b of its request
InBar(op) == call.op = op /\ "pattern" \in DOMAIN gen /\ gen.pc = "note"

\* the section of the bar being generated, as each generator reads it
BarSection ==
    IF call.op = "generateMelody" THEN SectionAt(call.startBar + gen.b)
    ELSE MarkovSectionAt(call.startBar + gen.b)

\* the bar is the last one the request asks for
LastRequestedBar ==
    IF call.op = "generateMelody" THEN gen.b = call.length - 1
    ELSE gen.b = call.numBars - 1

\* C12 as stated: a non-Intro bar at phrase position 3 has the rhythm
\* <long note, rest>, or, if it is the last bar of the request, one note
\* that lasts the whole bar.
C12_NoteThenRest ==
    /\ (InBar("generateMelody") /\ gen.b % 4 = 3 /\ BarSection # "INTRO")
        => \/ /\ Len(gen.pattern) = 2
              /\ ~gen.pattern[1].isRest /\ gen.pattern[2].isRest
           \/ LastRequestedBar /\ gen.pattern = << RhythmNote(stepsPerBar) >>
    /\ (InBar("generateMelodyMarkov") /\ gen.b % 4 = 3 /\ BarSection # "INTRO")
        => \/ /\ Len(gen.pattern) = 2
              /\ gen.pattern[1].type = "NOTE" /\ gen.pattern[2].type = "REST"
           \/ LastRequestedBar /\ gen.pattern = << MotifNote(stepsPerBar) >>

\* C12 (amended): a non-Intro bar at phrase position 3 has, in
\* generateMelody, one note that lasts the whole bar when it is the last
\* bar of the request, and otherwise a note of 8 steps followed by 8 steps
\* that are a rest or a second note; in generateMelodyMarkov it has a note
\* of half a bar followed by a rest of half a bar, the last bar included.
C12_Amended ==
    /\ (InBar("generateMelody") /\ gen.b % 4 = 3 /\ BarSection # "INTRO")
        => IF LastRequestedBar
           THEN gen.pattern = << RhythmNote(stepsPerBar) >>
           ELSE /\ Len(gen.pattern) = 2
                /\ gen.pattern[1] = RhythmNote(8)
                /\ gen.pattern[2] \in {RhythmRest(8), RhythmNote(8)}
    /\ (InBar("generateMelodyMarkov") /\ gen.b % 4 = 3 /\ BarSection # "INTRO")
        => gen.pattern = << MotifNote(stepsPerBar \div 2),
                            MotifRest(stepsPerBar \div 2) >>

\* bar 3 of a five-bar request, a Chorus bar, with two notes and no rest
C12_Witness ==
    /\ InBar("generateMelody") /\ gen.b = 3 /\ call.length = 5
    /\ call.startBar = 0 /\ BarSection = "CHORUS"
    /\ gen.pattern = << RhythmNote(8), RhythmNote(8) >>

-----------------------------------------------------------------------------
(* Claims about the drum engine                                            *)

\* a completed getDrumPattern call on the transition bar from a Chorus to
\* a Verse, 16 steps to the bar
ChorusToVerse ==
    /\ Completed("getDrumPattern") /\ call.isTransition
    /\ call.currentSection = "CHORUS" /\ call.nextSection = "VERSE"
    /\ call.stepsPerBar = 16

\* what the same step returns on a bar that is no transition
SteadyState ==
    getDrumPattern(call.genre, call.currentSection, call.nextSection,
                   call.stepIndex, call.stepsPerBar, FALSE)

Toms == {HI_TOM, MID_TOM, LO_TOM}

\* C13 as stated: on the transition bar Chorus -> Verse every step 8..15
\* returns the fill and not the steady-state pattern of the step: toms
\* only, the HI_TOM on an earlier step than the LO_TOM.
C13_FillFromStep8 ==
    (ChorusToVerse /\ call.stepIndex \in 8..15)
    => /\ ret.kind = "return"
       /\ ret # SteadyState
       /\ Range(ret.value) \subseteq Toms
       /\ \A i, j \in 8..15 :
            LET At(k) == getDrumPattern(call.genre, "CHORUS", "VERSE", k, 16, TRUE)
            IN  (At(i).kind = "return" /\ At(j).kind = "return"
                    /\ HI_TOM \in Range(At(i).value)
                    /\ LO_TOM \in Range(At(j).value)) => i < j

\* C13 (amended): on the transition bar Chorus -> Verse the steps 12..15
\* return the descent HI_TOM (12), MID_TOM (13), LO_TOM (14), nothing (15),
\* whatever the genre; the steps 8..11 return what they return on a bar
\* that is no transition.
C13_Amended ==
    /\ (ChorusToVerse /\ call.stepIndex \in 12..15)
        => ret = Return(CASE call.stepIndex = 12 -> <<HI_TOM>>
                          [] call.stepIndex = 13 -> <<MID_TOM>>
                          [] call.stepIndex = 14 -> <<LO_TOM>>
                          [] OTHER -> <<>>)
    /\ (ChorusToVerse /\ call.stepIndex \in 8..11) => ret = SteadyState

\* step 8 of the transition bar in ROCK: the kick of the steady state
C13_Witness ==
    /\ ChorusToVerse /\ call.genre = "ROCK" /\ call.stepIndex = 8
    /\ ret.kind = "return" /\ KICK \in Range(ret.value)

\* a completed getDrumPattern call for a step 8..15 of a transition bar, 16
\* steps to the bar, that is neither an Intro bar nor a Chorus bar before a
\* section other than Chorus and Outro
C24_BuildupStep ==
    /\ Completed("getDrumPattern") /\ call.isTransition
    /\ call.stepsPerBar = 16 /\ call.stepIndex \in 8..15
    /\ call.currentSection # "INTRO"
    /\ ~(call.currentSection = "CHORUS"
            /\ call.nextSection \notin {"CHORUS", "OUTRO"})

\* the steps 8..15 of that bar in a genre
C24_Fill(genre) ==
    [s \in 8..15 |-> getDrumPattern(genre, call.currentSection,
                                    call.nextSection, s, 16, TRUE)]

C24_Generic == [s \in 8..15 |-> Return(On(s \in {14, 15}, <<SNARE>>))]

C24_OwnBuildup == {"ROCK", "POP", "TECHNO", "TRAP"}

\* C24: in such a fill ROCK, POP, TECHNO and TRAP have a buildup pattern
\* each, different from one another and from the generic one, and every
\* other genre key has the generic fill: a snare on step 14, a snare on
\* step 15 and nothing on the steps 8..13.
C24_GenericFallback ==
    C24_BuildupStep
        => /\ call.genre \notin C24_OwnBuildup
                => ret = C24_Generic[call.stepIndex]
           /\ \A g \in C24_OwnBuildup :
                /\ C24_Fill(g) # C24_Generic
                /\ \A h \in C24_OwnBuildup \ {g} : C24_Fill(g) # C24_Fill(h)

\* C25 as stated: for every genre, section, next section and step index
\* 0..7, getDrumPattern on a transition bar returns what it returns on a
\* bar that is no transition.
C25_HeadUnchanged ==
    (Completed("getDrumPattern") /\ call.isTransition /\ call.stepIndex \in 0..7)
        => ret = SteadyState

\* C25 (amended): the same for every step of the first half of the bar,
\* the steps whose sixteenth floor(16 * stepIndex / stepsPerBar) is in
\* 0..7: the step indices 0..7 of a bar of 16 steps, 0..5 of a bar of 12
\* steps, 0..15 of a bar of 32 steps.
C25_Amended ==
    (Completed("getDrumPattern") /\ call.isTransition
        /\ (call.stepIndex * 16) \div call.stepsPerBar \in 0..7)
        => ret = SteadyState

\* step 6 of a Rock transition bar of 16 steps: the kick and the hat of the
\* steady state
C25_Witness ==
    /\ Completed("getDrumPattern") /\ call.isTransition
    /\ call.genre = "ROCK" /\ call.currentSection = "VERSE"
    /\ call.nextSection = "CHORUS" /\ call.stepsPerBar = 16
    /\ call.stepIndex = 6
    /\ ret = Return(<<KICK, CHAT>>)

-----------------------------------------------------------------------------
(* Claims about undo and redo (under SpecHistory)                          *)

\* C15: an undo() that has a snapshot to return to leaves every field of
\* the song (tracks and notes, bpm, stepsPerBar, totalBars, barChords,
\* barStructure, rootKey, scaleName, vocal range) as it was when that
\* snapshot was saved, whatever was changed since; a redo() leaves every
\* field as it was when the undo it reverses was made; and no step changes
\* a snapshot that stays on a stack.
C15_UndoRedoRestores ==
    [][/\ (call'.op = "undo" /\ undoStack # <<>>) => Song' = Last(prev.undo)
       /\ (call'.op = "redo" /\ redoStack # <<>>) => Song' = Last(prev.redo)
       /\ \A k \in DOMAIN undoStack \cap DOMAIN undoStack' :
            undoStack'[k] = undoStack[k]
       /\ \A k \in DOMAIN redoStack \cap DOMAIN redoStack' :
            redoStack'[k] = redoStack[k]]_vars

-----------------------------------------------------------------------------
(* Claims about chord names (under SpecTheory)                             *)

\* the suffix C16 gives each chord quality
C16_Suffix(type) ==
    CASE type = "Major" -> ""
      [] type = "Minor" -> "m"
      [] type = "Dim" -> "U+00B0"
      [] type = "Aug" -> "+"
      [] type = "Dom7" -> "7"

\* C16: getRealChordName returns the note name of pitch class
\* (rootKey + intervals[0]) mod 12 followed by the suffix of the chord
\* quality: none for Major, 'm' for Minor, the degree sign for Dim, '+' for
\* Aug, '7' for Dom7.
C16_ChordName ==
    Returned("getRealChordName")
    => ret.value = << noteNames[((call.rootKey + call.chordDef.intervals[1]) % 12) + 1],
                      C16_Suffix(call.chordDef.type) >>

\* the base motif of the request: mainRhythm of line 983 in generateMelody,
\* motifBank[currentSection] || motifBank['VERSE'] of line 1111 in
\* generateMelodyMarkov
BaseMotif ==
    IF call.op = "generateMelody"
    THEN generateMelodicRhythm(call.complexity, call.rnd)
    ELSE generateGoodMotif(call.complexity, stepsPerBar,
                           gen.motifBank[MotifSection(BarSection)])

\* C18 as stated: in either generator a non-Intro bar at phrase position 0
\* or 1 carries the base motif unmodified (so bars 0 and 1 of a phrase in
\* one section have the same rhythm).
C18_BaseMotifReplay ==
    ((InBar("generateMelody") \/ InBar("generateMelodyMarkov"))
        /\ gen.b % 4 \in {0, 1} /\ BarSection # "INTRO")
        => gen.pattern = BaseMotif

\* C18 (amended): a non-Intro bar at phrase position 0 or 1 carries the
\* base motif unmodified, except that in generateMelody the last bar of
\* the request carries one note that lasts the whole bar whatever its
\* position; generateMelodyMarkov has no such exception.
C18_Amended ==
    /\ (InBar("generateMelody") /\ gen.b % 4 \in {0, 1} /\ BarSection # "INTRO")
        => IF LastRequestedBar
           THEN gen.pattern = << RhythmNote(stepsPerBar) >>
           ELSE gen.pattern = BaseMotif
    /\ (InBar("generateMelodyMarkov") /\ gen.b % 4 \in {0, 1}
            /\ BarSection # "INTRO")
        => gen.pattern = BaseMotif

\* bar 1 of a three-bar request, a Verse bar, replays a motif whose first
\* note a variation would split
C18_Witness ==
    /\ InBar("generateMelody") /\ gen.b = 1 /\ call.length = 3
    /\ call.startBar = 1 /\ BarSection = "VERSE"
    /\ call.complexity = "LOW" /\ call.rnd = 0
    /\ gen.pattern = << RhythmNote(4), RhythmNote(4), RhythmNote(8) >>

\* duration and kind of a rhythm event of either generator
C19_Dur(e) == IF "duration" \in DOMAIN e THEN e.duration ELSE e.dur
C19_IsNote(e) == IF "isRest" \in DOMAIN e THEN ~e.isRest ELSE e.type = "NOTE"
C19_Long(e) == C19_IsNote(e) /\ C19_Dur(e) >= 4

\* varied is base with its first long note, wherever it lies, replaced by
\* two notes of equal duration that last as long together; base itself
\* when it has no long note
C19_IsVariation(varied, base) ==
    IF \E i \in DOMAIN base : C19_Long(base[i])
    THEN LET i == CHOOSE k \in DOMAIN base :
                    C19_Long(base[k]) /\ \A j \in 1..(k - 1) : ~C19_Long(base[j])
         IN  /\ Len(varied) = Len(base) + 1
             /\ SubSeq(varied, 1, i - 1) = SubSeq(base, 1, i - 1)
             /\ SubSeq(varied, i + 2, Len(varied)) = SubSeq(base, i + 1, Len(base))
             /\ C19_IsNote(varied[i]) /\ C19_IsNote(varied[i + 1])
             /\ C19_Dur(varied[i]) = C19_Dur(varied[i + 1])
             /\ C19_Dur(varied[i]) + C19_Dur(varied[i + 1]) = C19_Dur(base[i])
    ELSE varied = base

\* the bar is one whose rhythm is the variation: phrase position 2, and in
\* generateMelody neither an Intro bar nor the last bar of the request
C19_VariedBar ==
    \/ InBar("generateMelodyMarkov") /\ gen.b % 4 = 2
    \/ /\ InBar("generateMelody") /\ gen.b % 4 = 2
       /\ BarSection # "INTRO" /\ ~LastRequestedBar

\* C19: the rhythm of a bar at phrase position 2 is the base motif with its
\* first note of at least 4 steps, anywhere in the motif, split into two
\* notes of half its duration, every other event kept in order; it is the
\* base motif when no note lasts 4 steps.
C19_SplitsFirstLongNote ==
    C19_VariedBar => C19_IsVariation(gen.pattern, BaseMotif)

\* C20: in generateMelody and in generateMelodyMarkov a bar whose section
\* is Intro has the rhythm note, rest, note, rest, each a quarter of the
\* bar, at every phrase position and also as the last bar of the request.
C20_IntroSparse ==
    ((InBar("generateMelody") \/ InBar("generateMelodyMarkov"))
        /\ BarSection = "INTRO")
        => /\ Len(gen.pattern) = 4
           /\ \A k \in 1..4 :
                /\ C19_Dur(gen.pattern[k]) * 4 = stepsPerBar
                /\ C19_IsNote(gen.pattern[k]) <=> k \in {1, 3}

\* the motif of a raw rhythm given in quarter beats (lines 1297-1301)
C21_Motif(rawRhythm) ==
    [k \in DOMAIN rawRhythm |->
        LET d == (stepsPerBar * rawRhythm[k]) \div 16
        IN  MotifNote(IF d > 1 THEN d ELSE 1)]

C21_Pool(vibe, complexity) ==
    {C21_Motif(raw) : raw \in Range(vibePatterns(vibe, complexity))}

\* C21: the base motif generateMelodyMarkov uses for a bar is a template of
\* the pool of the vibe of the bar's section (Intro/Outro SPARSE, Verse
\* CHATTY, Chorus ANTHEM, Bridge SYNC), and the complexity changes the pool
\* of CHATTY only, where HIGH adds two templates.
C21_MotifFromVibePool ==
    InBar("generateMelodyMarkov")
        => /\ BaseMotif \in C21_Pool(bankVibe[MotifSection(BarSection)],
                                     call.complexity)
           /\ \A vibe \in {"SPARSE", "ANTHEM", "SYNC"} :
                C21_Pool(vibe, call.complexity) = C21_Pool(vibe, "LOW")
           /\ Cardinality(C21_Pool("CHATTY", "HIGH"))
                = Cardinality(C21_Pool("CHATTY", "LOW")) + 2

\* the scale notes generateMelodyMarkov chooses from in the bar it is in:
\* those of 55..84, in a Chorus those from 65 up
C22_ScaleNotes ==
    {n \in 55..84 : /\ JsMod(n - rootKey, 12) \in Range(scales[scaleName])
                    /\ BarSection = "CHORUS" => n >= 65}

C22_Within(d) == {n \in C22_ScaleNotes : Abs(n - gen.lastMidi) <= d}

C22_ChordTones ==
    IF (gen.stepCursor % (stepsPerBar \div 4) = 0)
    THEN {n \in C22_Within(7) :
            JsMod(n, 12) \in ChordClasses(call.startBar + gen.b)}
    ELSE {}

\* the set the chain of the claim ends in; empty when the pitch is repeated
C22_Chain ==
    IF C22_ChordTones # {} THEN C22_ChordTones
    ELSE IF C22_Within(7) # {} THEN C22_Within(7)
    ELSE C22_Within(12)

\* C22: a step of generateMelodyMarkov that emits a note after a previous
\* pitch takes it from the first non-empty set of: the chord tones among
\* the scale notes within 7 semitones (strong beats only), the scale notes
\* within 7 semitones, the scale notes within 12 semitones; it repeats the
\* previous pitch when all are empty.  So the pitch is a scale note within
\* 12 semitones of the previous pitch, or the previous pitch.
C22_CandidateChain ==
    [][(/\ call.op = "generateMelodyMarkov" /\ gen.pc = "note"
        /\ gen.lastMidi # -1 /\ gen'.count = gen.count + 1)
        => /\ IF C22_Chain # {} THEN gen'.note.midi \in C22_Chain
              ELSE gen'.note.midi = gen.lastMidi
           /\ \/ gen'.note.midi \in C22_Within(12)
              \/ gen'.note.midi = gen.lastMidi]_vars

\* a Chorus bar whose note on the first step, chosen after earlier notes,
\* is a chord tone
C22_Witness ==
    /\ InBar("generateMelodyMarkov") /\ BarSection = "CHORUS"
    /\ gen.count >= 2 /\ gen.stepCursor > 0 /\ gen.note # NoNote
    /\ gen.note.time = (call.startBar + gen.b) * stepsPerBar
    /\ JsMod(gen.note.midi, 12) \in ChordClasses(call.startBar + gen.b)

\* getDrumPattern has just been called for a step of a Chorus or Solo bar
C23_EnergeticStep ==
    /\ call.op = "generateDrumsForWholeSong" /\ gen.pc = "drums"
    /\ gen.out # NoNote
    /\ barStructure[gen.out.bar + 1] \in {"CHORUS", "SOLO"}

\* the bar of that step is the first bar of its run of Chorus or Solo bars
C23_FirstBarOfSection ==
    gen.out.bar = 0 \/ barStructure[gen.out.bar] # barStructure[gen.out.bar + 1]

\* C23: in the drums of a whole song a Chorus or Solo section has a crash
\* on the first step of its first bar and on no other step, and outside
\* the last two beats of a transition bar its hats are an open hat on the
\* 3rd sixteenth of each beat and a closed hat on every other step.
C23_CrashOncePerSection ==
    C23_EnergeticStep
        => /\ CRASH \in Range(gen.out.notes)
                <=> (gen.out.s = 0 /\ C23_FirstBarOfSection)
           /\ ~(gen.out.isTransition /\ gen.out.s >= 8)
                => /\ OHAT \in Range(gen.out.notes) <=> gen.out.s % 4 = 2
                   /\ CHAT \in Range(gen.out.notes) <=> gen.out.s % 4 # 2

\* the handlers of SpecEdits that write over or delete parts of the song
C26_DestructiveEdits == {"clearBtn", "removeBar", "menuNew", "generateDrumsBtn"}

\* C26: a destructive edit that changes the song (here clearing a track,
\* trimming the last bar, a new project, generating the drums) first
\* pushes a snapshot of the song as it was, so that the top of the undo
\* stack after the edit is the song before the edit.
C26_SnapshotBeforeEdit ==
    [][(call'.op \in C26_DestructiveEdits /\ Song' # Song)
        => /\ undoStack' # <<>>
           /\ Last(undoStack') = getData]_vars

\* a running flush still has the event to send, or has kept it for the
\* queue it is going to write
C27_HeldByFlush(e) ==
    \E f \in DOMAIN flush :
        /\ flush[f].pc \in {"fetch", "set"}
        /\ \/ e \in Range(flush[f].newQueue)
           \/ \E k \in flush[f].i..Len(flush[f].offlineQueue) :
                flush[f].offlineQueue[k] = e

\* C27: an event whose trackEvent call has ended, off line or after a
\* failed delivery, is in offlineQueue until a flush has delivered it: it
\* is in the stored queue, or in the hands of a running flush, or the
\* server has accepted it, whatever the interleaving of trackEvent,
\* saveOffline and flushOfflineQueue.
C27_NoQueuedEventLost ==
    \A e \in 1..MaxEvents :
        track[e].pc = "done"
            => \/ e \in accepted
               \/ e \in Range(offlineQueue)
               \/ C27_HeldByFlush(e)

\* C28: through any saveState, undo and redo the undo stack holds at most
\* limit (50) snapshots; a saveState leaves the redo stack empty; an undo
\* with an empty undo stack, and a redo with an empty redo stack, change
\* neither stack nor the song.
C28_StacksBounded ==
    [][/\ Len(undoStack') <= limit
       /\ call'.op = "gridClick" => redoStack' = <<>>
       /\ (call'.op = "undo" /\ undoStack = <<>>)
            => UNCHANGED <<undoStack, redoStack, songVars>>
       /\ (call'.op = "redo" /\ redoStack = <<>>)
            => UNCHANGED <<undoStack, redoStack, songVars>>]_vars

\* a click has just saved with the stack full: the snapshot of the empty
\* song, the oldest, is gone
C28_Witness ==
    /\ call.op = "gridClick" /\ Len(undoStack) = limit /\ redoStack = <<>>
    /\ undoStack[1].tracks[1].notes # <<>>

\* a step of a generator that adds a note to the list it returns
C29_Emits ==
    /\ call.op \in {"generateMelody", "generateMelodyMarkov"}
    /\ gen.pc = "note" /\ gen'.pc # "done" /\ gen'.count = gen.count + 1

C29_Asked == IF call.op = "generateMelody" THEN call.length ELSE call.numBars

\* C29: a note generateMelody or generateMelodyMarkov emits for bar k lasts
\* at least one step, starts in bar k and ends in it, starts no earlier
\* than the note emitted before it ends, and bar k is one of the bars
\* asked for and a bar of the song (k < totalBars).
C29_NotesInsideBars ==
    [][C29_Emits =>
        LET n == gen'.note
            k == call.startBar + gen.b
        IN  /\ n.duration >= 1
            /\ k * stepsPerBar <= n.time
            /\ n.time + n.duration <= (k + 1) * stepsPerBar
            /\ gen.note # NoNote => gen.note.time + gen.note.duration <= n.time
            /\ gen.b >= 0 /\ gen.b < C29_Asked
            /\ k < totalBars]_vars


-----------------------------------------------------------------------------
(* The bar operations of State                                             *)

C30_IsBarCall == call'.op \in {"insertBar", "deleteBar", "copyBar", "pasteBar"}

\* every note of every track starts before the end of the song
C30_NotesInSong ==
    \A t \in DOMAIN tracks : \A k \in DOMAIN tracks[t].notes :
        tracks[t].notes[k].time < totalBars * stepsPerBar

\* C30: after a call of insertBar, deleteBar, copyBar or pasteBar with any
\* integer bar index, barChords and barStructure have totalBars items each,
\* totalBars is at least 1, and the notes that started before the end of
\* the song before the call still do.
C30_BarArraysInStep ==
    [][C30_IsBarCall =>
        /\ Len(barChords') = totalBars'
        /\ Len(barStructure') = totalBars'
        /\ totalBars' >= 1
        /\ C30_NotesInSong => C30_NotesInSong']_vars

====
